---- MODULE Spec2Model ----
(***************************************************************************)
(* Expense-sharing ledger (backend/app): the expense lifecycle handlers of *)
(* routers/expenses.py, record_settlement of routers/settlements.py and    *)
(* the balance computations of db/sqlite_service.py,                       *)
(* routers/expenses.py and routers/groups.py, over the repository tables   *)
(* expenses, expense_splits, settlements and notifications.                 *)
(*                                                                         *)
(* Money is counted in minor units (1 = 0.01 currency unit), so that       *)
(* round(x, 2) is rounding to an integer.  The tables are those of the     *)
(* SQLite backend (the configured default): expense_splits has no          *)
(* uniqueness constraint on (expense_id, user_id), and a query without     *)
(* ORDER BY returns rows in no specified order, so a table is a bag of     *)
(* rows.                                                                   *)
(***************************************************************************)
EXTENDS Integers, FiniteSets, Sequences, Bags, TLC

(***************************************************************************)
(* Bounds of the model.                                                    *)
(***************************************************************************)
MaxExpenses == 1
MaxSettlements == 1
MaxNotifications == 1
\* of the ledger specification (two expenses, two settlements)
MaxLedgerExpenses == 2
MaxLedgerSettlements == 2
MaxAllocExpenses == 2
MaxGroups == 2
MaxMemberRows == 5
MaxInflight == 2
\* split rows of one expense in the commit specification
MaxSplitRows == 4

(***************************************************************************)
(* Identities.  Users holds the registered users ("Z" is an id that no     *)
(* user row carries).  G1 is an active group whose active members are A     *)
(* (admin, its creator) and B; G0 is an id that no group row carries.      *)
(***************************************************************************)
Users == {"A", "B", "C", "D"}
None == "None"
Groups == {"G1"}
GroupIds == {None, "G1", "G0"}

\* Optional[float] = None of a request field that is left out
NoneNum == -1

\* abs(v) > 0.01 keeps an entry of a balance map
Tolerance == 1

Abs(x) == IF x < 0 THEN -x ELSE x

(***************************************************************************)
(* round(x, 2) of Python on the float x = p/q minor units.  Away from a    *)
(* tie the result is the nearest integer.  On a tie (p/q = k + 1/2) the    *)
(* result depends on the binary representation of the float; FloatTieUp    *)
(* lists the odd t < 30 for which round(t/100/2, 2) rounds up (the others  *)
(* round down), as CPython computes them; (t/100*50)/100 and (t/100*1)/2   *)
(* round the same way for these t.  The amounts of the model only meet     *)
(* ties of this kind (an odd total halved).                                *)
(***************************************************************************)
FloatTieUp == {1, 5, 7, 11, 13, 17, 19, 23, 27}

round2(p, q) ==
    LET fl == p \div q
        r  == p % q
    IN  IF 2 * r > q THEN fl + 1
        ELSE IF 2 * r < q THEN fl
        ELSE IF (2 * fl + 1) \in FloatTieUp THEN fl + 1 ELSE fl

(***************************************************************************)
(* Bags of rows.                                                           *)
(***************************************************************************)
RECURSIVE SeqToBag(_)
SeqToBag(s) ==
    IF s = << >> THEN EmptyBag
    ELSE SetToBag({Head(s)}) (+) SeqToBag(Tail(s))

RECURSIVE SumOver(_, _)
\* the sum of b[r] * f[r] over the rows r of the bag b, f a function on rows
SumOver(b, f) ==
    IF DOMAIN b = {} THEN 0
    ELSE LET r == CHOOSE x \in DOMAIN b : TRUE
         IN  b[r] * f[r] + SumOver([x \in (DOMAIN b) \ {r} |-> b[x]], f)

RECURSIVE SumSet(_, _)
\* the sum of f[x] over the set S
SumSet(S, f) ==
    IF S = {} THEN 0
    ELSE LET x == CHOOSE y \in S : TRUE
         IN  f[x] + SumSet(S \ {x}, f)

RECURSIVE SumSeq(_, _)
SumSeq(s, f) ==
    IF s = << >> THEN 0 ELSE f[Head(s)] + SumSeq(Tail(s), f)

(***************************************************************************)
(* State: the repository tables.  The HTTP status a handler answers is a   *)
(* function of the request and of the tables before it (the operators      *)
(* *_status); a rejected request that writes nothing is a stuttering step. *)
(***************************************************************************)
VARIABLES
    expenses,       \* expense id -> expense row
    splits,         \* expense id -> bag of expense_splits rows
    settlements,    \* bag of settlements rows
    notifications,  \* bag of notifications rows
    groups,         \* group id -> group row
    group_members,  \* set of group_members rows, each with its id
    inflight,       \* the requests that are between two of their commits
    sink_rejects    \* the users whose notifications the sink fails to store

vars ==
    <<expenses, splits, settlements, notifications, groups, group_members,
      inflight, sink_rejects>>

\* the tables a balance computation reads
DB == [expenses |-> expenses, splits |-> splits, settlements |-> settlements]

\* Notification.expense_id of a notification that names no expense
NoExpense == 0

(***************************************************************************)
(* Repository reads (db/sqlite_service.py).                                *)
(***************************************************************************)
get_user_by_id(u) == u \in Users

get_group_by_id(g) == g \in DOMAIN groups

\* the membership test without the filter on is_active
is_group_member_any(g, u) ==
    \E m \in group_members : m.group_id = g /\ m.user_id = u

is_group_member(g, u) ==
    \E m \in group_members :
        m.group_id = g /\ m.user_id = u /\ m.is_active

get_expense_by_id(e) == e \in DOMAIN expenses

\* the is_draft field of the expense dict that get_expense_by_id returns
expense_is_draft(e) == expenses[e].is_draft

\* the is_draft field that create_expense(..., is_draft=...) stores
stored_is_draft(is_draft) == is_draft

\* the rows of `rows` (a bag of split rows) that belong to user u
RowsOf(rows, u) == {r \in DOMAIN rows : r.user_id = u}

get_group_expenses(db, g) ==
    {e \in DOMAIN db.expenses :
        db.expenses[e].group_id = g /\ db.expenses[e].is_active}

\* the query without its is_active filter
get_user_expenses_all(db, u) ==
    {e \in DOMAIN db.expenses :
        \/ db.expenses[e].paid_by_id = u
        \/ RowsOf(db.splits[e], u) # {}}

get_user_expenses(db, u) ==
    {e \in DOMAIN db.expenses :
        /\ db.expenses[e].is_active
        /\ \/ db.expenses[e].paid_by_id = u
           \/ RowsOf(db.splits[e], u) # {}}

\* the rows of the bag b that satisfy the test (a set of rows), as a bag
Restrict(b, S) == [r \in S |-> b[r]]

get_group_settlements(db, g) ==
    Restrict(db.settlements,
             {s \in DOMAIN db.settlements : s.group_id = g /\ s.is_active})

\* the query with a filter on the group: the settlements of no group
get_user_settlements_ungrouped(db, u) ==
    Restrict(db.settlements,
             {s \in DOMAIN db.settlements :
                 /\ s.is_active /\ s.group_id = None
                 /\ (s.from_user_id = u \/ s.to_user_id = u)})

get_user_settlements(db, u) ==
    Restrict(db.settlements,
             {s \in DOMAIN db.settlements :
                 s.is_active /\ (s.from_user_id = u \/ s.to_user_id = u)})

(***************************************************************************)
(* Balance Engine.                                                         *)
(***************************************************************************)
\* what one split row r of an expense paid by paid_by adds to balances[k]
\* in the loop of calculate_user_balances(user_id)
split_term_swapped(user_id, paid_by, r, k) ==
    IF paid_by = user_id /\ r.user_id # user_id
    THEN (IF r.user_id = k THEN r.amount ELSE 0)
    ELSE IF paid_by # user_id /\ r.user_id = user_id
    THEN (IF paid_by = k THEN r.amount ELSE 0)
    ELSE 0

split_term(user_id, paid_by, r, k) ==
    IF paid_by = user_id /\ r.user_id # user_id
    THEN (IF r.user_id = k THEN r.amount ELSE 0)
    ELSE IF paid_by # user_id /\ r.user_id = user_id
    THEN (IF paid_by = k THEN 0 - r.amount ELSE 0)
    ELSE 0

\* what one settlement row s adds to balances[k]
settlement_term_swapped(user_id, s, k) ==
    IF s.from_user_id = user_id
    THEN (IF s.to_user_id = k THEN 0 - s.amount ELSE 0)
    ELSE IF s.to_user_id = user_id
    THEN (IF s.from_user_id = k THEN 0 - s.amount ELSE 0)
    ELSE 0

settlement_term(user_id, s, k) ==
    IF s.from_user_id = user_id
    THEN (IF s.to_user_id = k THEN s.amount ELSE 0)
    ELSE IF s.to_user_id = user_id
    THEN (IF s.from_user_id = k THEN 0 - s.amount ELSE 0)
    ELSE 0

\* balances[k] before the tolerance filter, over the expenses E and the
\* settlements S (a bag) that the scope selects
accumulate(db, E, S, user_id, k) ==
    SumSet(E, [e \in E |->
        SumOver(db.splits[e], [r \in DOMAIN db.splits[e] |->
            split_term(user_id, db.expenses[e].paid_by_id, r, k)])])
    + SumOver(S, [s \in DOMAIN S |-> settlement_term(user_id, s, k)])

scope_expenses(db, user_id, group_id) ==
    IF group_id # None THEN get_group_expenses(db, group_id)
    ELSE get_user_expenses(db, user_id)

scope_settlements(db, user_id, group_id) ==
    IF group_id # None THEN get_group_settlements(db, group_id)
    ELSE get_user_settlements(db, user_id)

\* the dict that calculate_user_balances returns
calculate_user_balances(db, user_id, group_id) ==
    LET E == scope_expenses(db, user_id, group_id)
        S == scope_settlements(db, user_id, group_id)
        balances == [k \in Users |-> accumulate(db, E, S, user_id, k)]
    IN  [k \in {u \in Users : Abs(balances[u]) > Tolerance} |-> balances[k]]

\* m.get(k, 0)
Entry(m, k) == IF k \in DOMAIN m THEN m[k] ELSE 0

\* GET /balances/group/{group_id}: the response for user_id, a member
get_group_balances(db, group_id, user_id) ==
    LET E    == get_group_expenses(db, group_id)
        S    == get_group_settlements(db, group_id)
        paid == {e \in E : db.expenses[e].paid_by_id = user_id}
        total_expenses == SumSet(E, [e \in E |-> db.expenses[e].amount])
        your_paid  == SumSet(paid, [e \in paid |-> db.expenses[e].amount])
        your_share == SumSet(E, [e \in E |->
            SumOver(db.splits[e], [r \in DOMAIN db.splits[e] |->
                IF r.user_id = user_id THEN r.amount ELSE 0])])
        balances == [k \in Users |-> accumulate(db, E, S, user_id, k)]
        keep == {k \in Users :
                    Abs(balances[k]) > Tolerance /\ get_user_by_id(k)}
    IN  [total_expenses   |-> total_expenses,
         your_total_paid  |-> your_paid,
         your_total_share |-> your_share,
         your_balance     |-> your_paid - your_share,
         balances |-> [k \in keep |-> balances[k]]]

RECURSIVE first_shares(_, _, _)
\* the values total_share can take over the expenses E: per expense the
\* amount of the row that .first() returns among the user's rows (any of
\* them: the query has no ORDER BY), nothing when the user has no row
first_shares(db, E, user_id) ==
    IF E = {} THEN {0}
    ELSE LET e    == CHOOSE x \in E : TRUE
             mine == RowsOf(db.splits[e], user_id)
             one  == IF mine = {} THEN {0} ELSE {r.amount : r \in mine}
         IN  {a + b : a \in one, b \in first_shares(db, E \ {e}, user_id)}

\* the values _calculate_group_balance(db, group_id, user_id) can return
calculate_group_balance(db, group_id, user_id) ==
    LET E    == get_group_expenses(db, group_id)
        S    == get_group_settlements(db, group_id)
        paid == {e \in E : db.expenses[e].paid_by_id = user_id}
        total_paid ==
            SumSet(paid, [e \in paid |-> db.expenses[e].amount])
            + SumOver(S, [s \in DOMAIN S |->
                  IF s.from_user_id = user_id THEN s.amount ELSE 0])
        received ==
            SumOver(S, [s \in DOMAIN S |->
                  IF s.to_user_id = user_id THEN s.amount ELSE 0])
    IN  {total_paid - (share + received) :
            share \in first_shares(db, E, user_id)}

(***************************************************************************)
(* Requests.  A split configuration is what ExpenseCreate carries:         *)
(* split_type, split_with_user_ids and splits, a list of                   *)
(* ExpenseSplitCreate entries whose unused fields are None.                *)
(***************************************************************************)
SplitEntry(u, a, p, s) ==
    [user_id |-> u, amount |-> a, percentage |-> p, shares |-> s]

Config(t, with, list) ==
    [split_type |-> t, split_with_user_ids |-> with, splits |-> list]

\* the notes of an expense: the text the user gave (is there any), and the
\* __DRAFT_SPLIT_INFO__ JSON that create_expense appends for a draft
NoInfo == Config(None, {}, << >>)
Notes(text, has_info, info) ==
    [text |-> text, has_info |-> has_info, info |-> info]

SplitRow(u, a) == [user_id |-> u, amount |-> a]

RECURSIVE BagMap(_, _)
\* the bag of f[r] for the rows r of the bag b
BagMap(b, f) ==
    IF DOMAIN b = {} THEN EmptyBag
    ELSE LET r == CHOOSE x \in DOMAIN b : TRUE
         IN  [x \in {f[r]} |-> b[r]]
             (+) BagMap([x \in (DOMAIN b) \ {r} |-> b[x]], f)

\* the split rows of a list of entries, each with the amount f gives it
ListRows(list, f) ==
    SeqToBag([i \in DOMAIN list |-> SplitRow(list[i].user_id, f[list[i]])])

Range(list) == {list[i] : i \in DOMAIN list}

(***************************************************************************)
(* Split Allocator, as create_expense computes it.                         *)
(***************************************************************************)
equal_rows(user_ids, amount) ==
    SetToBag({SplitRow(u, round2(amount, Cardinality(user_ids))) :
                 u \in user_ids})

total_shares(list) == SumSeq(list, [s \in Range(list) |-> s.shares])

\* the request makes the allocation raise (TypeError on a None operand,
\* ZeroDivisionError on total_shares = 0): HTTP 500 before any write
create_splits_raises(cfg) ==
    CASE cfg.split_type = "exact" ->
            \E s \in Range(cfg.splits) : s.amount = NoneNum
      [] cfg.split_type = "percentage" ->
            \E s \in Range(cfg.splits) : s.percentage = NoneNum
      [] cfg.split_type = "shares" ->
            \/ \E s \in Range(cfg.splits) : s.shares = NoneNum
            \/ cfg.splits # << >> /\ total_shares(cfg.splits) = 0
      [] OTHER -> FALSE

\* the allocation without the payer's remainder of an exact split
create_splits_listed(caller, amount, cfg) ==
    CASE cfg.split_type = "equal" ->
            equal_rows({caller} \cup cfg.split_with_user_ids, amount)
      [] cfg.split_type = "exact" ->
            ListRows(cfg.splits, [s \in Range(cfg.splits) |-> s.amount])
      [] cfg.split_type = "percentage" ->
            ListRows(cfg.splits, [s \in Range(cfg.splits) |->
                round2(amount * s.percentage, 100)])
      [] cfg.split_type = "shares" ->
            ListRows(cfg.splits, [s \in Range(cfg.splits) |->
                round2(amount * s.shares, total_shares(cfg.splits))])

create_splits(caller, amount, cfg) ==
    CASE cfg.split_type = "equal" ->
            equal_rows({caller} \cup cfg.split_with_user_ids, amount)
      [] cfg.split_type = "exact" ->
            LET listed == ListRows(cfg.splits,
                              [s \in Range(cfg.splits) |-> s.amount])
                total_split == SumSeq(cfg.splits,
                              [s \in Range(cfg.splits) |-> s.amount])
                remaining == amount - total_split
            IN  IF (\A s \in Range(cfg.splits) : s.user_id # caller)
                   /\ remaining > 0
                THEN listed (+) SetToBag({SplitRow(caller, remaining)})
                ELSE listed
      [] cfg.split_type = "percentage" ->
            ListRows(cfg.splits, [s \in Range(cfg.splits) |->
                round2(amount * s.percentage, 100)])
      [] cfg.split_type = "shares" ->
            ListRows(cfg.splits, [s \in Range(cfg.splits) |->
                round2(amount * s.shares, total_shares(cfg.splits))])

(***************************************************************************)
(* Notification sink.  A handler sends its notifications one by one, each  *)
(* call inside its own try/except, and goes on with the next when one      *)
(* raises.  The sink raises for the users in sink_rejects, and it raises   *)
(* once the table holds MaxNotifications rows; so of the notifications a   *)
(* handler dispatches (in the order of its list, which for a set of user   *)
(* ids is unspecified) those that the sink accepts are stored, as many as  *)
(* fit.                                                                    *)
(***************************************************************************)
Min(a, b) == IF a < b THEN a ELSE b

Notification(u, t, e) ==
    [user_id |-> u, notification_type |-> t, expense_id |-> e]

\* the notifications for the split rows of `rows` that are not the caller's
expense_notifications(rows, caller, t, e) ==
    BagMap(Restrict(rows, {r \in DOMAIN rows : r.user_id # caller}),
           [r \in DOMAIN rows |-> Notification(r.user_id, t, e)])

\* the notifications of `intended` for which the sink does not raise
sink_accepts(intended) ==
    Restrict(intended, {n \in DOMAIN intended : n.user_id \notin sink_rejects})

\* a loop that the first failure ends: nothing is stored unless the sink
\* accepts every notification
dispatch_until_failure(intended) ==
    LET room == MaxNotifications - BagCardinality(notifications)
        ok   == IF sink_accepts(intended) = intended THEN intended
                ELSE EmptyBag
        n    == Min(BagCardinality(ok), room)
    IN  \E sent \in SubBag(ok) :
            /\ BagCardinality(sent) = n
            /\ notifications' = notifications (+) sent

dispatch(intended) ==
    LET room == MaxNotifications - BagCardinality(notifications)
        ok   == sink_accepts(intended)
        n    == Min(BagCardinality(ok), room)
    IN  \E sent \in SubBag(ok) :
            /\ BagCardinality(sent) = n
            /\ notifications' = notifications (+) sent

(***************************************************************************)
(* Init: the tables after start-up and the creation of group G1 by A with  *)
(* member B; no expense, settlement or notification yet.                   *)
(***************************************************************************)
Member(id, g, u, role) ==
    [id |-> id, group_id |-> g, user_id |-> u, role |-> role,
     is_active |-> TRUE]

Group(created_by_id) ==
    [created_by_id |-> created_by_id, name |-> "group", is_active |-> TRUE]

Init ==
    /\ expenses = << >>
    /\ splits = << >>
    /\ settlements = EmptyBag
    /\ notifications = EmptyBag
    /\ groups = [g \in Groups |-> Group("A")]
    /\ group_members = {Member(1, "G1", "A", "admin"),
                        Member(2, "G1", "B", "member")}
    /\ inflight = {}
    /\ sink_rejects = {}

NextId == Cardinality(DOMAIN expenses) + 1

(***************************************************************************)
(* POST /api/expenses/                                                     *)
(***************************************************************************)
create_expense_status(caller, d) ==
    IF d.group_id # None
       /\ (~get_group_by_id(d.group_id) \/ ~groups[d.group_id].is_active)
    THEN 404
    ELSE IF d.group_id # None /\ ~is_group_member(d.group_id, caller)
    THEN 403
    ELSE IF create_splits_raises(d.cfg)
    THEN 500
    ELSE 201

\* the notes that create_expense stores (the request carries no notes)
create_notes(d) ==
    IF d.is_draft THEN Notes(FALSE, TRUE, d.cfg) ELSE Notes(FALSE, FALSE, NoInfo)

\* the split rows that create_expense hands to the repository
draft_splits(caller, d) ==
    IF d.is_draft THEN EmptyBag ELSE create_splits(caller, d.amount, d.cfg)

\* the expense row that the repository inserts
create_row(caller, d) ==
    [amount      |-> d.amount,
     paid_by_id  |-> caller,
     group_id    |-> d.group_id,
     split_type  |-> d.cfg.split_type,
     notes       |-> create_notes(d),
     is_active   |-> TRUE,
     is_draft    |-> stored_is_draft(d.is_draft)]

create_expense(caller, d) ==
    LET status == create_expense_status(caller, d)
        id     == NextId
    IN  /\ IF status = 201
           THEN /\ expenses' = expenses @@ (id :> create_row(caller, d))
                /\ splits' = splits @@ (id :> draft_splits(caller, d))
                /\ IF d.is_draft
                   THEN UNCHANGED notifications
                   ELSE dispatch(expense_notifications(
                            create_splits(caller, d.amount, d.cfg),
                            caller, "expense_added", id))
                /\ UNCHANGED <<settlements, groups, group_members, inflight,
                 sink_rejects>>
           ELSE UNCHANGED <<expenses, splits, settlements, notifications,
                            groups, group_members, inflight,
                 sink_rejects>>

(***************************************************************************)
(* DELETE /api/expenses/{expense_id}                                       *)
(***************************************************************************)
payer_check_off(caller, e) == FALSE

\* the caller is not the expense's payer
not_payer(caller, e) == expenses[e].paid_by_id # caller

delete_expense_status(caller, e) ==
    IF ~get_expense_by_id(e) \/ ~expenses[e].is_active THEN 404
    ELSE IF not_payer(caller, e) THEN 403
    ELSE 204

delete_expense(caller, e) ==
    LET status == delete_expense_status(caller, e)
    IN  /\ IF status = 204
           THEN expenses' = [expenses EXCEPT ![e].is_active = FALSE]
           ELSE UNCHANGED expenses
        /\ UNCHANGED <<splits, settlements, notifications, groups, group_members, inflight,
                 sink_rejects>>

(***************************************************************************)
(* POST /api/settlements/                                                  *)
(***************************************************************************)
settlement_from(caller, d) ==
    IF d.from_user_id # None THEN d.from_user_id ELSE caller

\* the checks without the test that the caller is the payer or the payee
record_settlement_status_any_caller(caller, d) ==
    LET from_user_id == settlement_from(caller, d)
    IN  IF from_user_id # caller /\ ~get_user_by_id(from_user_id) THEN 404
        ELSE IF ~get_user_by_id(d.to_user_id) THEN 404
        ELSE IF from_user_id = d.to_user_id THEN 400
        ELSE 201

record_settlement_status(caller, d) ==
    LET from_user_id == settlement_from(caller, d)
    IN  IF from_user_id # caller /\ ~get_user_by_id(from_user_id) THEN 404
        ELSE IF ~get_user_by_id(d.to_user_id) THEN 404
        ELSE IF from_user_id = d.to_user_id THEN 400
        ELSE IF caller # from_user_id /\ caller # d.to_user_id THEN 403
        ELSE 201

create_settlement(from_user_id, to_user_id, amount, group_id) ==
    [from_user_id |-> from_user_id, to_user_id |-> to_user_id,
     amount |-> amount, group_id |-> group_id, is_active |-> TRUE]

record_settlement(caller, d) ==
    LET status       == record_settlement_status(caller, d)
        from_user_id == settlement_from(caller, d)
        notify_user_id ==
            IF caller = from_user_id THEN d.to_user_id ELSE from_user_id
    IN  /\ IF status = 201
           THEN /\ settlements' = settlements (+) SetToBag({
                       create_settlement(from_user_id, d.to_user_id,
                                         d.amount, d.group_id)})
                /\ dispatch(SetToBag({
                       Notification(notify_user_id, "settlement", NoExpense)}))
           ELSE UNCHANGED <<settlements, notifications>>
        /\ UNCHANGED <<expenses, splits, groups, group_members, inflight,
                 sink_rejects>>

(***************************************************************************)
(* PUT /api/expenses/drafts/{expense_id}/submit                            *)
(***************************************************************************)
\* the checks without the test of the draft flag
submit_draft_checks_any(caller, e) ==
    IF ~get_expense_by_id(e) THEN 404
    ELSE IF not_payer(caller, e) THEN 403
    ELSE 200

\* the status of the checks that open submit_draft_expense (200: passed)
submit_draft_checks(caller, e) ==
    IF ~get_expense_by_id(e) THEN 404
    ELSE IF ~expense_is_draft(e) THEN 400
    ELSE IF not_payer(caller, e) THEN 403
    ELSE 200

\* split_info: the JSON found in the notes, or the default without it
draft_split_info(e) ==
    IF expenses[e].notes.has_info THEN expenses[e].notes.info
    ELSE Config(expenses[e].split_type, {}, << >>)

\* the list `splits` that submit_draft_expense prepares, as (user, amount)
\* entries in list order; the entries of an equal split in any one order
submit_list(caller, e) ==
    LET info == draft_split_info(e)
    IN  IF info.split_type = "equal"
        THEN LET user_ids == {caller} \cup info.split_with_user_ids
                 per == round2(expenses[e].amount, Cardinality(user_ids))
                 RECURSIVE order(_)
                 order(S) == IF S = {} THEN << >>
                             ELSE LET u == CHOOSE x \in S : TRUE
                                  IN  <<SplitRow(u, per)>> \o order(S \ {u})
             IN  order(user_ids)
        ELSE [i \in DOMAIN info.splits |->
                 SplitRow(info.splits[i].user_id, info.splits[i].amount)]

\* the entries that get a split row: all but the caller's own
submit_targets(caller, list) ==
    SelectSeq(list, LAMBDA r : r.user_id # caller)

RECURSIVE good_prefix(_)
\* create_expense_split raises on amount = None (a NOT NULL column): the
\* rows before the first such entry are committed, one commit each
good_prefix(list) ==
    IF list = << >> \/ Head(list).amount = NoneNum THEN << >>
    ELSE <<Head(list)>> \o good_prefix(Tail(list))

submit_draft_status(caller, e) ==
    LET checks == submit_draft_checks(caller, e)
    IN  IF checks # 200 THEN checks
        ELSE IF \E r \in Range(submit_targets(caller, submit_list(caller, e))) :
                    r.amount = NoneNum
        THEN 500
        ELSE 200

\* the notes after update_expense(notes=clean_notes if clean_notes else None)
submit_notes(notes) ==
    IF notes.text THEN Notes(TRUE, FALSE, NoInfo) ELSE notes

submit_draft_expense(caller, e) ==
    LET status  == submit_draft_status(caller, e)
        list    == submit_list(caller, e)
        written == SeqToBag(good_prefix(submit_targets(caller, list)))
    IN  /\ IF status = 200
           THEN /\ splits' = [splits EXCEPT ![e] = @ (+) written]
                /\ expenses' = [expenses EXCEPT
                       ![e].is_draft = FALSE,
                       ![e].notes = submit_notes(@)]
                /\ dispatch(expense_notifications(SeqToBag(list), caller,
                                                  "expense_added", e))
           ELSE IF status = 500
           THEN /\ splits' = [splits EXCEPT ![e] = @ (+) written]
                /\ UNCHANGED <<expenses, notifications>>
           ELSE UNCHANGED <<expenses, splits, notifications>>
        /\ UNCHANGED <<settlements, groups, group_members, inflight,
                 sink_rejects>>

(***************************************************************************)
(* PUT /api/expenses/{expense_id}.  An ExpenseUpdate request d: amount     *)
(* (NoneNum: left out), notes (given or not), split_type (None: left out), *)
(* split_with_user_ids and splits (each given or not).  Every repository   *)
(* call of the handler commits, so what is written before an HTTPException *)
(* stays written.                                                          *)
(***************************************************************************)
Update(amount, notes, t, with_given, with, splits_given, list) ==
    [amount |-> amount, notes |-> notes, split_type |-> t,
     with_given |-> with_given, split_with_user_ids |-> with,
     splits_given |-> splits_given, splits |-> list]

update_expense_checks(caller, e) ==
    IF ~get_expense_by_id(e) \/ ~expenses[e].is_active THEN 404
    ELSE IF not_payer(caller, e) THEN 403
    ELSE 200

\* the request carries a split configuration
splits_changed(d) ==
    d.split_type # None \/ d.with_given \/ d.splits_given

update_split_type(e, d) ==
    IF d.split_type # None THEN d.split_type ELSE expenses[e].split_type

update_new_amount(e, d) ==
    IF d.amount # NoneNum THEN d.amount ELSE expenses[e].amount

update_expense_status(caller, e, d) ==
    LET checks == update_expense_checks(caller, e)
    IN  IF checks # 200 THEN checks
        ELSE IF splits_changed(d)
                /\ update_split_type(e, d) = "equal" /\ d.with_given
                /\ d.split_with_user_ids = {}
        THEN 400
        ELSE IF splits_changed(d)
                /\ update_split_type(e, d) = "exact" /\ d.splits_given
                /\ \E s \in Range(d.splits) : s.amount = NoneNum
        THEN 500
        ELSE 200

\* the split rows of the expense after the handler
update_rows(e, d) ==
    IF ~splits_changed(d) THEN splits[e]
    ELSE IF update_split_type(e, d) = "equal" /\ d.with_given
    THEN (IF d.split_with_user_ids = {} THEN EmptyBag
          ELSE equal_rows(d.split_with_user_ids, update_new_amount(e, d)))
    ELSE IF update_split_type(e, d) = "exact" /\ d.splits_given
    THEN SeqToBag(good_prefix(
             [i \in DOMAIN d.splits |->
                 SplitRow(d.splits[i].user_id, d.splits[i].amount)]))
    ELSE EmptyBag

\* the expense row after the handler
update_row(e, d) ==
    [expenses[e] EXCEPT
        !.amount = update_new_amount(e, d),
        !.notes = IF d.notes THEN Notes(TRUE, FALSE, NoInfo) ELSE @,
        !.split_type = IF splits_changed(d) THEN update_split_type(e, d) ELSE @]

update_expense(caller, e, d) ==
    LET status == update_expense_status(caller, e, d)
    IN  /\ IF update_expense_checks(caller, e) = 200
           THEN /\ expenses' = [expenses EXCEPT ![e] = update_row(e, d)]
                /\ splits' = [splits EXCEPT ![e] = update_rows(e, d)]
                /\ IF status = 200 /\ (splits_changed(d) \/ d.amount # NoneNum)
                   THEN dispatch(expense_notifications(
                            update_rows(e, d), caller, "expense_updated", e))
                   ELSE UNCHANGED notifications
           ELSE UNCHANGED <<expenses, splits, notifications>>
        /\ UNCHANGED <<settlements, groups, group_members, inflight,
                 sink_rejects>>

(***************************************************************************)
(* Groups (routers/groups.py).  These handlers work on the SQLAlchemy      *)
(* session; a request that is between two of its commits, or between a     *)
(* query and the commit that acts on it, is a record of `inflight`, and    *)
(* the requests of other processes run in between.  Every handler calls    *)
(* create_group_invite_notification(db=db, ...), whose first parameter is  *)
(* db_service: the call raises TypeError inside its try/except, so no      *)
(* group handler stores a notification.                                    *)
(***************************************************************************)
GroupNames == <<"G1", "G2", "G3">>

\* the ids that the tables give their next rows
NextGroupId == GroupNames[Cardinality(DOMAIN groups) + 1]
NextMemberId == Cardinality(group_members) + 1
NextRequestId == Cardinality(inflight) + 1

\* the membership rows of user u in group g, active or not
member_rows(g, u) ==
    {m \in group_members : m.group_id = g /\ m.user_id = u}

\* the test without the role: any active membership row
is_group_admin_any_role(g, u) ==
    \E m \in member_rows(g, u) : m.is_active

\* user u holds an active admin membership of group g
is_group_admin(g, u) ==
    \E m \in member_rows(g, u) : m.role = "admin" /\ m.is_active

RECURSIVE new_members(_, _, _)
\* one "member" row per entry of the list of user ids, numbered from id
new_members(g, list, id) ==
    IF list = << >> THEN {}
    ELSE {Member(id, g, Head(list), "member")}
         \cup new_members(g, Tail(list), id + 1)

\* POST /api/groups/, up to its first commit: the group row
create_group_begin(caller, ids) ==
    /\ groups' = groups @@ (NextGroupId :> Group(caller))
    /\ inflight' = inflight \cup
           {[op |-> "create_group", id |-> NextRequestId, caller |-> caller,
             group_id |-> NextGroupId, user_id |-> None,
             member_user_ids |-> ids]}
    /\ UNCHANGED <<expenses, splits, settlements, notifications,
                   group_members, sink_rejects>>

\* the user ids of the request that get a membership row: all but the
\* creator's and those of no user, each as often as the list names it
create_group_added(caller, ids) ==
    SelectSeq(ids, LAMBDA u : u # caller /\ get_user_by_id(u))

\* POST /api/groups/, its second commit: the creator as admin and the
\* members
create_group_finish(r) ==
    /\ r \in inflight /\ r.op = "create_group"
    /\ group_members' = group_members
           \cup {Member(NextMemberId, r.group_id, r.caller, "admin")}
           \cup new_members(r.group_id,
                            create_group_added(r.caller, r.member_user_ids),
                            NextMemberId + 1)
    /\ inflight' = inflight \ {r}
    /\ UNCHANGED <<expenses, splits, settlements, notifications, groups,
                   sink_rejects>>

\* a request in flight ends without its next commit (the commit raises, or
\* the process is stopped): what it has committed stays
request_fails(r) ==
    /\ r \in inflight
    /\ inflight' = inflight \ {r}
    /\ UNCHANGED <<expenses, splits, settlements, notifications, groups,
                   group_members, sink_rejects>>

\* the checks that open add_member, add_members_bulk and delete_group
admin_checks(caller, g) ==
    IF ~get_group_by_id(g) \/ ~groups[g].is_active THEN 404
    ELSE IF ~is_group_admin(g, caller) THEN 403
    ELSE 200

add_member_checks(caller, g, u) ==
    IF admin_checks(caller, g) # 200 THEN admin_checks(caller, g)
    ELSE IF u = None THEN 400
    ELSE IF ~get_user_by_id(u) THEN 404
    ELSE 200

\* the membership row with its active flag set to v
with_active(m, v) == [m EXCEPT !.is_active = v]

\* POST /api/groups/{group_id}/members, up to the query for an existing
\* membership: an active row found answers 400, an inactive one is
\* re-activated, and with no row the request goes on to insert one
add_member_query(caller, g, u) ==
    IF add_member_checks(caller, g, u) # 200
    THEN UNCHANGED vars
    ELSE /\ IF member_rows(g, u) = {}
            THEN /\ inflight' = inflight \cup
                        {[op |-> "add_member", id |-> NextRequestId,
                          caller |-> caller, group_id |-> g, user_id |-> u,
                          member_user_ids |-> << >>]}
                 /\ UNCHANGED group_members
            ELSE /\ \E existing \in member_rows(g, u) :
                        group_members' = (group_members \ {existing})
                            \cup {with_active(existing, TRUE)}
                 /\ UNCHANGED inflight
         /\ UNCHANGED <<expenses, splits, settlements, notifications, groups,
                        sink_rejects>>

\* POST /api/groups/{group_id}/members, the insert and its commit
add_member_insert(r) ==
    /\ r \in inflight /\ r.op = "add_member"
    /\ group_members' = group_members
           \cup {Member(NextMemberId, r.group_id, r.user_id, "member")}
    /\ inflight' = inflight \ {r}
    /\ UNCHANGED <<expenses, splits, settlements, notifications, groups,
                   sink_rejects>>

\* POST /api/groups/{group_id}/members/bulk: for every listed id of a
\* user, a found row is re-activated and without one a row is added; the
\* session does not flush before a query (autoflush=False), so the rows
\* added for the earlier entries of the list are not found
add_members_bulk(caller, g, ids) ==
    IF admin_checks(caller, g) # 200
    THEN UNCHANGED vars
    ELSE LET known == SelectSeq(ids, get_user_by_id)
             fresh == SelectSeq(known, LAMBDA u : member_rows(g, u) = {})
             stale == {u \in Range(known) : member_rows(g, u) # {}}
         IN  /\ \E existing \in [stale -> group_members] :
                    /\ \A u \in stale : existing[u] \in member_rows(g, u)
                    /\ group_members' =
                           (group_members \ {existing[u] : u \in stale})
                           \cup {with_active(existing[u], TRUE) : u \in stale}
                           \cup new_members(g, fresh, NextMemberId)
             /\ UNCHANGED <<expenses, splits, settlements, notifications,
                            groups, inflight, sink_rejects>>

remove_member_status(caller, g, u) ==
    IF ~get_group_by_id(g) \/ ~groups[g].is_active THEN 404
    ELSE IF ~is_group_member(g, caller) THEN 403
    ELSE IF ~is_group_admin(g, caller) /\ u # caller THEN 403
    ELSE IF ~is_group_member(g, u) THEN 404
    ELSE 200

\* DELETE /api/groups/{group_id}/members/{user_id}
remove_member(caller, g, u) ==
    IF remove_member_status(caller, g, u) # 200
    THEN UNCHANGED vars
    ELSE /\ \E membership_to_remove \in
                  {m \in member_rows(g, u) : m.is_active} :
                group_members' = (group_members \ {membership_to_remove})
                    \cup {with_active(membership_to_remove, FALSE)}
         /\ UNCHANGED <<expenses, splits, settlements, notifications, groups,
                        inflight, sink_rejects>>

\* DELETE /api/groups/{group_id}
delete_group(caller, g) ==
    IF admin_checks(caller, g) # 200
    THEN UNCHANGED vars
    ELSE /\ groups' = [groups EXCEPT ![g].is_active = FALSE]
         /\ UNCHANGED <<expenses, splits, settlements, notifications,
                        group_members, inflight, sink_rejects>>

\* PUT /api/groups/{group_id}
update_group(caller, g, name) ==
    IF admin_checks(caller, g) # 200
    THEN UNCHANGED vars
    ELSE /\ groups' = [groups EXCEPT ![g].name = name]
         /\ UNCHANGED <<expenses, splits, settlements, notifications,
                        group_members, inflight, sink_rejects>>

(***************************************************************************)
(* PUT /api/expenses/{expense_id}, commit by commit.  A request that       *)
(* carries a split configuration commits the basic fields, then the delete *)
(* of the split rows, then the split_type, then every new split row by     *)
(* itself; the requests of other processes run between these commits.  pc  *)
(* is the commit the request is to make next.                              *)
(***************************************************************************)
RECURSIVE rows_in_order(_, _)
\* one split row of `per` for every user of S, in some order of the set
rows_in_order(S, per) ==
    IF S = {} THEN << >>
    ELSE LET u == CHOOSE x \in S : TRUE
         IN  <<SplitRow(u, per)>> \o rows_in_order(S \ {u}, per)

\* the checks, and the commit of the basic fields
update_fields(caller, e, d) ==
    /\ update_expense_checks(caller, e) = 200
    /\ splits_changed(d)
    /\ expenses' = [expenses EXCEPT
           ![e].amount = update_new_amount(e, d),
           ![e].notes = IF d.notes THEN Notes(TRUE, FALSE, NoInfo) ELSE @]
    /\ inflight' = inflight \cup
           {[op |-> "update_expense", id |-> NextRequestId, caller |-> caller,
             expense_id |-> e, d |-> d, pc |-> "delete",
             split_type |-> update_split_type(e, d),
             new_amount |-> update_new_amount(e, d), rows |-> << >>]}
    /\ UNCHANGED <<splits, settlements, notifications, groups, group_members,
                   sink_rejects>>

\* db_service.delete_expense_splits and its commit
update_delete_splits(r) ==
    /\ r \in inflight /\ r.op = "update_expense" /\ r.pc = "delete"
    /\ splits' = [splits EXCEPT ![r.expense_id] = EmptyBag]
    /\ inflight' = (inflight \ {r}) \cup {[r EXCEPT !.pc = "type"]}
    /\ UNCHANGED <<expenses, settlements, notifications, groups,
                   group_members, sink_rejects>>

\* the split rows that the request goes on to create, in their order
update_list(r) ==
    IF r.split_type = "equal" /\ r.d.with_given
    THEN rows_in_order(r.d.split_with_user_ids,
             IF r.d.split_with_user_ids = {} THEN 0
             ELSE round2(r.new_amount, Cardinality(r.d.split_with_user_ids)))
    ELSE IF r.split_type = "exact" /\ r.d.splits_given
    THEN [i \in DOMAIN r.d.splits |->
             SplitRow(r.d.splits[i].user_id, r.d.splits[i].amount)]
    ELSE << >>

\* db_service.update_expense(split_type=...) and its commit; an equal
\* split with no user then ends the request with 400
update_set_type(r) ==
    /\ r \in inflight /\ r.op = "update_expense" /\ r.pc = "type"
    /\ expenses' = [expenses EXCEPT ![r.expense_id].split_type = r.split_type]
    /\ inflight' =
           IF r.split_type = "equal" /\ r.d.with_given
              /\ r.d.split_with_user_ids = {}
           THEN inflight \ {r}
           ELSE (inflight \ {r})
                \cup {[r EXCEPT !.pc = "rows", !.rows = update_list(r)]}
    /\ UNCHANGED <<splits, settlements, notifications, groups, group_members,
                   sink_rejects>>

\* db_service.create_expense_split and its commit; an amount of None
\* raises and ends the request with 500
update_create_split(r) ==
    /\ r \in inflight /\ r.op = "update_expense" /\ r.pc = "rows"
    /\ r.rows # << >>
    /\ IF Head(r.rows).amount = NoneNum
       THEN /\ inflight' = inflight \ {r}
            /\ UNCHANGED splits
       ELSE /\ splits' = [splits EXCEPT
                   ![r.expense_id] = @ (+) SetToBag({Head(r.rows)})]
            /\ inflight' = (inflight \ {r})
                   \cup {[r EXCEPT !.rows = Tail(r.rows)]}
    /\ UNCHANGED <<expenses, settlements, notifications, groups,
                   group_members, sink_rejects>>

\* the notifications for the split rows that the expense has now, and the
\* response
update_notify(r) ==
    /\ r \in inflight /\ r.op = "update_expense" /\ r.pc = "rows"
    /\ r.rows = << >>
    /\ dispatch(expense_notifications(splits[r.expense_id], r.caller,
                                      "expense_updated", r.expense_id))
    /\ inflight' = inflight \ {r}
    /\ UNCHANGED <<expenses, splits, settlements, groups, group_members,
                   sink_rejects>>

(***************************************************************************)
(* The requests of the model.  A and B are the users who create expenses   *)
(* and settle with each other; C takes part in splits and calls the        *)
(* handlers on what is not C's: C is no member of G1.  "Z" is the id of no *)
(* user.                                                                   *)
(***************************************************************************)
Callers == {"A", "B", "C"}
CreateAmounts == {1000}
UpdateAmounts == {7}
SettleAmounts == {500}
ExpenseIds == 1..MaxExpenses

EqualWith(with) == Config("equal", with, << >>)
ExactList(list) == Config("exact", {}, list)
PercentageList(list) == Config("percentage", {}, list)
SharesList(list) == Config("shares", {}, list)

Configs ==
    {EqualWith({"B"}), EqualWith({"B", "C"}),
     ExactList(<<SplitEntry("C", 3, NoneNum, NoneNum)>>),
     PercentageList(<<SplitEntry("B", NoneNum, 50, NoneNum),
                      SplitEntry("C", NoneNum, 50, NoneNum)>>),
     SharesList(<<SplitEntry("B", NoneNum, NoneNum, 1),
                  SplitEntry("C", NoneNum, NoneNum, 2)>>),
     SharesList(<<SplitEntry("B", NoneNum, NoneNum, 0)>>)}

CreateRequests ==
    [amount : CreateAmounts, group_id : GroupIds, cfg : Configs,
     is_draft : BOOLEAN]

\* C creates nothing outside G1, where the membership check rejects C
CreateCalls ==
    {c \in Callers \X CreateRequests : c[1] = "C" => c[2].group_id = "G1"}

UpdateRequests ==
    {Update(a, FALSE, None, FALSE, {}, FALSE, << >>) : a \in UpdateAmounts}
    \cup {Update(NoneNum, TRUE, None, FALSE, {}, FALSE, << >>),
          Update(NoneNum, FALSE, None, TRUE, {}, FALSE, << >>),
          Update(NoneNum, FALSE, None, TRUE, {"A", "B"}, FALSE, << >>),
          Update(7, FALSE, "equal", TRUE, {"B"}, FALSE, << >>),
          Update(NoneNum, FALSE, "exact", FALSE, {}, TRUE,
                 <<SplitEntry("C", 3, NoneNum, NoneNum)>>),
          Update(NoneNum, FALSE, "percentage", FALSE, {}, TRUE,
                 <<SplitEntry("B", NoneNum, 50, NoneNum)>>)}

SettleRequests ==
    [from_user_id : {None, "A", "B"}, to_user_id : {"A", "B", "Z"},
     amount : SettleAmounts, group_id : {None, "G1"}]

\* C records no settlement of C's own
SettleCalls ==
    {c \in Callers \X SettleRequests : c[1] = "C" => c[2].from_user_id # None}

Next ==
    \/ \E c \in CreateCalls :
           NextId <= MaxExpenses /\ create_expense(c[1], c[2])
    \/ \E caller \in Callers, e \in ExpenseIds : submit_draft_expense(caller, e)
    \/ \E caller \in Callers, e \in ExpenseIds, d \in UpdateRequests :
           update_expense(caller, e, d)
    \/ \E caller \in Callers, e \in ExpenseIds : delete_expense(caller, e)
    \/ \E c \in SettleCalls :
           /\ BagCardinality(settlements) < MaxSettlements
           /\ record_settlement(c[1], c[2])

Spec == Init /\ [][Next]_vars

(***************************************************************************)
(* The ledger specification: two expenses and two settlements among A, B,  *)
(* C and D, with the requests that make debts in both directions: A pays   *)
(* 1200.00 split equally four ways outside any group; in G1, B pays 10.00  *)
(* split equally with A (at once or as a draft) and A pays 10.00 split     *)
(* half and half between B and C.  B settles 300.00 with A; A and B settle *)
(* 5.00 with each other in G1.                                             *)
(***************************************************************************)
LedgerCallers == {"A", "B"}

LedgerCreateCalls ==
    {<<"A", [amount |-> 120000, group_id |-> None,
             cfg |-> EqualWith({"B", "C", "D"}), is_draft |-> FALSE]>>,
     <<"B", [amount |-> 1000, group_id |-> "G1",
             cfg |-> EqualWith({"A"}), is_draft |-> FALSE]>>,
     <<"B", [amount |-> 1000, group_id |-> "G1",
             cfg |-> EqualWith({"A"}), is_draft |-> TRUE]>>,
     <<"A", [amount |-> 1000, group_id |-> "G1",
             cfg |-> PercentageList(<<SplitEntry("B", NoneNum, 50, NoneNum),
                                      SplitEntry("C", NoneNum, 50, NoneNum)>>),
             is_draft |-> FALSE]>>}

LedgerUpdateRequests ==
    {Update(7, FALSE, None, FALSE, {}, FALSE, << >>),
     Update(NoneNum, FALSE, None, TRUE, {"A", "B"}, FALSE, << >>)}

LedgerSettleCalls ==
    {<<"B", [from_user_id |-> None, to_user_id |-> "A", amount |-> 30000,
             group_id |-> None]>>,
     <<"B", [from_user_id |-> None, to_user_id |-> "A", amount |-> 500,
             group_id |-> "G1"]>>,
     <<"B", [from_user_id |-> "A", to_user_id |-> "B", amount |-> 500,
             group_id |-> "G1"]>>}

LedgerNext ==
    \/ \E c \in LedgerCreateCalls :
           NextId <= MaxLedgerExpenses /\ create_expense(c[1], c[2])
    \/ \E caller \in LedgerCallers, e \in 1..MaxLedgerExpenses :
           submit_draft_expense(caller, e)
    \/ \E caller \in LedgerCallers, e \in 1..MaxLedgerExpenses,
          d \in LedgerUpdateRequests :
           update_expense(caller, e, d)
    \/ \E caller \in LedgerCallers, e \in 1..MaxLedgerExpenses :
           delete_expense(caller, e)
    \/ \E c \in LedgerSettleCalls :
           /\ BagCardinality(settlements) < MaxLedgerSettlements
           /\ record_settlement(c[1], c[2])

LedgerSpec == Init /\ [][LedgerNext]_vars

(***************************************************************************)
(* Properties.                                                             *)
(***************************************************************************)
\* a balance scope: global (None) or one group
Scopes == {None} \cup Groups

\* the tables without expense e and its split rows
DBWithout(e) ==
    [expenses |-> [x \in (DOMAIN expenses) \ {e} |-> expenses[x]],
     splits |-> [x \in (DOMAIN splits) \ {e} |-> splits[x]],
     settlements |-> settlements]

\* the tables after the step
DBNext == [expenses |-> expenses', splits |-> splits', settlements |-> settlements']

\* the sum of the amounts of a bag of split rows
SumRows(rows) == SumOver(rows, [r \in DOMAIN rows |-> r.amount])

\* every balance computation gives the same over db1 and over db2
SameBalances(db1, db2) ==
    /\ \A u \in Users, g \in Scopes :
           calculate_user_balances(db1, u, g) = calculate_user_balances(db2, u, g)
    /\ \A u \in Users, g \in Groups :
           /\ get_group_balances(db1, g, u) = get_group_balances(db2, g, u)
           /\ calculate_group_balance(db1, g, u) = calculate_group_balance(db2, g, u)

\* the notifications that name expense e
NotificationsOf(e) ==
    Restrict(notifications, {n \in DOMAIN notifications : n.expense_id = e})

EqualCommit(e) ==
    \/ \E c \in CreateCalls :
          /\ e = NextId
          /\ create_expense_status(c[1], c[2]) = 201
          /\ ~c[2].is_draft /\ c[2].cfg.split_type = "equal"
          /\ create_expense(c[1], c[2])
    \/ \E caller \in Callers :
          /\ e \in DOMAIN expenses
          /\ submit_draft_status(caller, e) = 200
          /\ draft_split_info(e).split_type = "equal"
          /\ splits[e] = EmptyBag
          /\ submit_draft_expense(caller, e)
    \/ \E caller \in Callers, d \in UpdateRequests :
          /\ e \in DOMAIN expenses
          /\ update_expense_status(caller, e, d) = 200
          /\ splits_changed(d) /\ update_split_type(e, d) = "equal"
          /\ d.with_given
          /\ update_expense(caller, e, d)

\* C2: whenever create_expense, submit_draft or update_expense commits an
\* Equal split of an expense of amount T, the committed split amounts sum
\* to T exactly
C2_EqualSumsToTotal ==
    [][\A e \in 1..MaxExpenses :
          EqualCommit(e) => SumRows(splits'[e]) = expenses'[e].amount]_vars

\* C3: every active non-draft expense with n >= 1 split rows has a sum of
\* split amounts within (n - 1) minor units of the expense amount
C3_SplitSumInvariant ==
    \A e \in DOMAIN expenses :
        (expenses[e].is_active /\ ~expenses[e].is_draft
            /\ splits[e] # EmptyBag)
        => Abs(SumRows(splits[e]) - expenses[e].amount)
               <= BagCardinality(splits[e]) - 1

DeletedHasNoEffect ==
    \A e \in DOMAIN expenses :
        ~expenses[e].is_active => SameBalances(DB, DBWithout(e))

\* delete_expense keeps every split row and every settlement
DeleteRetainsRows ==
    \A caller \in Callers, e \in DOMAIN expenses :
        delete_expense(caller, e) =>
            /\ splits' = splits
            /\ settlements' = settlements
            /\ \A x \in (DOMAIN expenses) \ {e} : expenses'[x] = expenses[x]

\* C8: after delete_expense every balance read equals the read over the
\* ledger without the expense, and the delete removes no split row and no
\* settlement
C8_DeleteRemovesContribution ==
    []DeletedHasNoEffect /\ [][DeleteRetainsRows]_vars

\* a deleted expense that kept its split rows, beside an active expense
\* and a settlement that still show in the balances
C8_Witness ==
    \E e, x \in DOMAIN expenses :
        /\ ~expenses[e].is_active
        /\ ~expenses[e].is_draft
        /\ RowsOf(splits[e], "A") # {} /\ expenses[e].paid_by_id = "B"
        /\ expenses[x].is_active /\ expenses[x].paid_by_id = "A"
        /\ RowsOf(splits[x], "B") # {}
        /\ settlements # EmptyBag
        /\ Entry(calculate_user_balances(DB, "A", None), "B") # 0
        /\ Entry(calculate_user_balances(DB, "A", None), "B")
               # Entry(calculate_user_balances(
                          [DB EXCEPT !.settlements = EmptyBag], "A", None), "B")

\* C9: on a deleted expense update_expense, delete_expense and submit_draft
\* answer 404, and no step changes the expense, its split rows or the
\* notifications that name it
C9_DeletedIsTerminal ==
    [][\A e \in DOMAIN expenses :
          ~expenses[e].is_active =>
              /\ \A caller \in Callers :
                    /\ delete_expense_status(caller, e) = 404
                    /\ submit_draft_status(caller, e) = 404
                    /\ \A d \in UpdateRequests :
                          update_expense_status(caller, e, d) = 404
              /\ expenses'[e] = expenses[e]
              /\ splits'[e] = splits[e]
              /\ NotificationsOf(e)' = NotificationsOf(e)]_vars

\* the step is a request on expense e by its payer
PayerStep(e) ==
    LET payer == expenses[e].paid_by_id
    IN  \/ delete_expense(payer, e)
        \/ submit_draft_expense(payer, e)
        \/ \E d \in UpdateRequests : update_expense(payer, e, d)

\* a request on expense e by someone else leaves every table as it is
OthersChangeNothing ==
    \A e \in DOMAIN expenses : \A caller \in Callers :
        (/\ caller # expenses[e].paid_by_id
         /\ \/ delete_expense(caller, e)
            \/ submit_draft_expense(caller, e)
            \/ \E d \in UpdateRequests : update_expense(caller, e, d))
        => UNCHANGED vars

\* an expense, its split rows and its notifications change only in a
\* request by the payer
OnlyPayerChanges ==
    \A e \in DOMAIN expenses :
        (\/ expenses'[e] # expenses[e]
         \/ splits'[e] # splits[e]
         \/ NotificationsOf(e)' # NotificationsOf(e))
        => PayerStep(e)

\* every request on an expense by someone other than the payer answers 403
OthersGetForbidden ==
    \A e \in DOMAIN expenses : \A caller \in Callers :
        caller # expenses[e].paid_by_id =>
            /\ delete_expense_status(caller, e) = 403
            /\ submit_draft_status(caller, e) = 403
            /\ \A d \in UpdateRequests :
                  update_expense_status(caller, e, d) = 403

OthersGetRejected ==
    \A e \in DOMAIN expenses : \A caller \in Callers :
        caller # expenses[e].paid_by_id =>
            /\ delete_expense_status(caller, e)
                  = IF expenses[e].is_active THEN 403 ELSE 404
            /\ submit_draft_status(caller, e)
                  = IF expense_is_draft(e) THEN 403 ELSE 400
            /\ \A d \in UpdateRequests :
                  update_expense_status(caller, e, d)
                      = IF expenses[e].is_active THEN 403 ELSE 404

RejectedSubmitChangesNothing ==
    \A e \in DOMAIN expenses : \A caller \in Callers :
        (/\ ~expense_is_draft(e) \/ caller # expenses[e].paid_by_id
         /\ submit_draft_expense(caller, e))
        => UNCHANGED vars

\* submit_draft answers 404 on an expense that is no draft and 403 to
\* someone other than the payer of a draft
SubmitNotFoundOrForbidden ==
    \A e \in DOMAIN expenses : \A caller \in Callers :
        /\ ~expense_is_draft(e) => submit_draft_status(caller, e) = 404
        /\ (expense_is_draft(e) /\ caller # expenses[e].paid_by_id)
               => submit_draft_status(caller, e) = 403

SubmitBadRequestOrForbidden ==
    /\ \A e \in DOMAIN expenses : \A caller \in Callers :
          /\ ~expense_is_draft(e) => submit_draft_status(caller, e) = 400
          /\ (expense_is_draft(e) /\ caller # expenses[e].paid_by_id)
                 => submit_draft_status(caller, e) = 403
    /\ \A e \in ExpenseIds \ DOMAIN expenses : \A caller \in Callers :
          submit_draft_status(caller, e) = 404

UpdatedConfig(e, d) ==
    Config(update_split_type(e, d), d.split_with_user_ids, d.splits)

\* C20: after a successful update_expense that carries a split
\* configuration the split rows of the expense are the rows create_expense
\* commits for the same payer, strategy and participants with the amount
\* in force after the update
C20_UpdateEqualsCreate ==
    [][\A e \in DOMAIN expenses : \A d \in UpdateRequests :
          (/\ splits_changed(d)
           /\ update_expense_status(expenses[e].paid_by_id, e, d) = 200
           /\ update_expense(expenses[e].paid_by_id, e, d))
          => splits'[e] = create_splits(expenses[e].paid_by_id,
                                        update_new_amount(e, d),
                                        UpdatedConfig(e, d))]_vars

(***************************************************************************)
(* The allocation specification: A and B create expenses of 1000.00 and of *)
(* 500.00 outside any group, with exact splits whose listed amounts stay   *)
(* below the total (B 400.00, C 300.00 of 1000.00), exceed it (the same of *)
(* 500.00), are missing, or list the payer; with shares that sum to zero   *)
(* or not; and with an equal split.                                        *)
(***************************************************************************)
AllocCallers == {"A", "B"}
AllocAmounts == {100000, 50000}

AllocConfigs ==
    {ExactList(<<SplitEntry("B", 40000, NoneNum, NoneNum),
                 SplitEntry("C", 30000, NoneNum, NoneNum)>>),
     ExactList(<< >>),
     ExactList(<<SplitEntry("A", 30000, NoneNum, NoneNum),
                 SplitEntry("B", 70000, NoneNum, NoneNum)>>),
     SharesList(<<SplitEntry("B", NoneNum, NoneNum, 0)>>),
     SharesList(<<SplitEntry("B", NoneNum, NoneNum, 1),
                  SplitEntry("C", NoneNum, NoneNum, 2)>>),
     EqualWith({"B", "C"})}

AllocCreateCalls ==
    AllocCallers
        \X [amount : AllocAmounts, group_id : {None}, cfg : AllocConfigs,
            is_draft : {FALSE}]

AllocNext ==
    \/ \E c \in AllocCreateCalls :
           NextId <= MaxAllocExpenses /\ create_expense(c[1], c[2])
    \/ \E caller \in AllocCallers, e \in 1..MaxAllocExpenses :
           delete_expense(caller, e)

AllocSpec == Init /\ [][AllocNext]_vars

(***************************************************************************)
(* C14: the payer's remainder of an exact split                            *)
(***************************************************************************)
\* the sum of the amounts an exact split lists
ListedSum(cfg) == SumSeq(cfg.splits, [s \in Range(cfg.splits) |-> s.amount])

\* an exact split that does not list the payer and lists less than the
\* total
ExactBelowTotal(caller, d) ==
    /\ d.cfg.split_type = "exact" /\ ~d.is_draft
    /\ \A s \in Range(d.cfg.splits) : s.user_id # caller /\ s.amount # NoneNum
    /\ ListedSum(d.cfg) < d.amount

\* create_expense accepts every such request
ExactBelowTotalAccepted ==
    \A c \in AllocCreateCalls :
        ExactBelowTotal(c[1], c[2]) => create_expense_status(c[1], c[2]) = 201

\* and commits the listed rows and the payer's row of total - listed
ExactRemainderCommitted ==
    \A c \in AllocCreateCalls :
        (ExactBelowTotal(c[1], c[2]) /\ create_expense(c[1], c[2]))
        => /\ NextId \in DOMAIN splits'
           /\ splits'[NextId]
                 = ListRows(c[2].cfg.splits,
                       [s \in Range(c[2].cfg.splits) |-> s.amount])
                   (+) SetToBag({SplitRow(c[1], c[2].amount - ListedSum(c[2].cfg))})
           /\ SumRows(splits'[NextId]) = c[2].amount

InvalidSplit(caller, d) ==
    \/ /\ d.cfg.split_type = "exact"
       /\ \A s \in Range(d.cfg.splits) : s.user_id # caller
       /\ ListedSum(d.cfg) > d.amount
    \/ d.cfg.split_type = "exact" /\ d.cfg.splits = << >>
    \/ d.cfg.split_type = "shares" /\ total_shares(d.cfg.splits) <= 0

\* the statuses of a request rejected as invalid
InvalidSplitStatus == {400, 422}

\* create_expense answers such a request with InvalidSplit
InvalidSplitAnswered ==
    \A c \in AllocCreateCalls :
        InvalidSplit(c[1], c[2])
        => create_expense_status(c[1], c[2]) \in InvalidSplitStatus

\* and writes no expense row and no split row for it
InvalidSplitWritesNothing ==
    \A c \in AllocCreateCalls :
        (InvalidSplit(c[1], c[2]) /\ create_expense(c[1], c[2]))
        => UNCHANGED <<expenses, splits>>

\* C15: create_expense rejects with InvalidSplit, and writes no expense
\* row and no split row for, an exact split whose listed amounts exceed
\* the total while the payer is absent, an exact split without
\* participants, and a shares split whose total_shares is <= 0
C15_InvalidSplitRejected ==
    []InvalidSplitAnswered /\ [][InvalidSplitWritesNothing]_vars

(***************************************************************************)
(* The sink specification: A and B create an expense (at once or as a      *)
(* draft) that notifies B and C or C alone, submit, update and delete it,  *)
(* and settle with each other, while the sink starts and stops raising for *)
(* B and for C.                                                            *)
(***************************************************************************)
SinkCallers == {"A", "B"}

SinkCreateCalls ==
    SinkCallers
        \X [amount : CreateAmounts, group_id : {None},
            cfg : {EqualWith({"B", "C"}),
                   ExactList(<<SplitEntry("C", 3, NoneNum, NoneNum)>>)},
            is_draft : BOOLEAN]

SinkSettleCalls ==
    SinkCallers
        \X [from_user_id : {None}, to_user_id : {"A", "B"},
            amount : SettleAmounts, group_id : {None}]

\* create_*_notification starts or stops raising for some users
sink_fault(rejects) ==
    /\ sink_rejects' = rejects
    /\ UNCHANGED <<expenses, splits, settlements, notifications, groups,
                   group_members, inflight>>

SinkNext ==
    \/ \E c \in SinkCreateCalls :
           NextId <= MaxExpenses /\ create_expense(c[1], c[2])
    \/ \E caller \in SinkCallers, e \in ExpenseIds :
           submit_draft_expense(caller, e)
    \/ \E caller \in SinkCallers, e \in ExpenseIds, d \in UpdateRequests :
           update_expense(caller, e, d)
    \/ \E caller \in SinkCallers, e \in ExpenseIds : delete_expense(caller, e)
    \/ \E c \in SinkSettleCalls :
           /\ BagCardinality(settlements) < MaxSettlements
           /\ record_settlement(c[1], c[2])
    \/ \E rejects \in SUBSET {"B", "C"} : sink_fault(rejects)

SinkSpec == Init /\ [][SinkNext]_vars

(***************************************************************************)
(* C13: failures of the notification sink                                  *)
(***************************************************************************)
\* of the notifications `intended` the step stores those that the sink
\* accepts, all of them or as many as the table has room for, whatever the
\* sink does with the others
StoresAccepted(intended) ==
    /\ notifications \sqsubseteq notifications'
    /\ (notifications' (-) notifications) \sqsubseteq sink_accepts(intended)
    /\ BagCardinality(notifications')
          = Min(MaxNotifications,
                BagCardinality(notifications)
                    + BagCardinality(sink_accepts(intended)))

\* an accepted create_expense writes its expense and split rows and stores
\* the notifications that the sink accepts
CreateDespiteSink ==
    \A c \in SinkCreateCalls :
        (/\ DOMAIN expenses' # DOMAIN expenses
         /\ create_expense_status(c[1], c[2]) = 201 /\ ~c[2].is_draft
         /\ create_expense(c[1], c[2]))
        => /\ expenses' = expenses @@ (NextId :> create_row(c[1], c[2]))
           /\ splits' = splits @@ (NextId :> draft_splits(c[1], c[2]))
           /\ settlements' = settlements
           /\ StoresAccepted(expense_notifications(
                  create_splits(c[1], c[2].amount, c[2].cfg),
                  c[1], "expense_added", NextId))

\* the same of an accepted submit_draft
SubmitDespiteSink ==
    \A caller \in SinkCallers, e \in DOMAIN expenses :
        (submit_draft_status(caller, e) = 200 /\ submit_draft_expense(caller, e))
        => /\ ~expenses'[e].is_draft
           /\ splits' = [splits EXCEPT ![e] = @ (+) SeqToBag(
                  submit_targets(caller, submit_list(caller, e)))]
           /\ settlements' = settlements
           /\ StoresAccepted(expense_notifications(
                  SeqToBag(submit_list(caller, e)), caller, "expense_added", e))

\* the same of an accepted update_expense that notifies
UpdateDespiteSink ==
    \A caller \in SinkCallers, e \in DOMAIN expenses, d \in UpdateRequests :
        (/\ DOMAIN expenses' = DOMAIN expenses /\ settlements' = settlements
         /\ update_expense_status(caller, e, d) = 200
         /\ splits_changed(d) \/ d.amount # NoneNum
         /\ update_expense(caller, e, d))
        => /\ expenses' = [expenses EXCEPT ![e] = update_row(e, d)]
           /\ splits' = [splits EXCEPT ![e] = update_rows(e, d)]
           /\ settlements' = settlements
           /\ StoresAccepted(expense_notifications(
                  update_rows(e, d), caller, "expense_updated", e))

\* the same of an accepted record_settlement
SettleDespiteSink ==
    \A c \in SinkSettleCalls :
        (/\ settlements' # settlements
         /\ record_settlement_status(c[1], c[2]) = 201
         /\ record_settlement(c[1], c[2]))
        => /\ settlements' = settlements (+) SetToBag({
                  create_settlement(settlement_from(c[1], c[2]),
                      c[2].to_user_id, c[2].amount, c[2].group_id)})
           /\ expenses' = expenses /\ splits' = splits
           /\ StoresAccepted(SetToBag({Notification(
                  IF c[1] = settlement_from(c[1], c[2])
                  THEN c[2].to_user_id
                  ELSE settlement_from(c[1], c[2]),
                  "settlement", NoExpense)}))

GroupCallers == {"A", "B", "C"}
GroupTargets == {"G1", "G2", "G0"}

\* the membership rows that the requests in flight are still to insert
rows_to_come(r) ==
    IF r.op = "create_group"
    THEN 1 + Len(create_group_added(r.caller, r.member_user_ids))
    ELSE 1

\* the table has room for n more membership rows beside those to come
room_for(n) ==
    Cardinality(group_members)
        + SumSet(inflight, [r \in inflight |-> rows_to_come(r)]) + n
    <= MaxMemberRows

GroupCreateExpenseCalls ==
    GroupCallers
        \X [amount : CreateAmounts, group_id : GroupTargets,
            cfg : {EqualWith({"B"})}, is_draft : {FALSE}]

GroupNext ==
    \/ \E caller \in {"A", "B"}, ids \in {<<"B">>, <<"C", "C">>} :
           /\ Cardinality(DOMAIN groups) < MaxGroups
           /\ Cardinality(inflight) < MaxInflight
           /\ room_for(1 + Len(create_group_added(caller, ids)))
           /\ create_group_begin(caller, ids)
    \/ \E r \in inflight : create_group_finish(r)
    \/ \E r \in inflight : request_fails(r)
    \/ \E caller \in GroupCallers, g \in GroupTargets, u \in {"B", "C", "Z", None} :
           /\ Cardinality(inflight) < MaxInflight
           /\ room_for(1)
           /\ add_member_query(caller, g, u)
    \/ \E r \in inflight : add_member_insert(r)
    \/ \E caller \in GroupCallers, g \in GroupTargets,
          ids \in {<<"C", "C">>, <<"B", "Z">>} :
           room_for(Len(ids)) /\ add_members_bulk(caller, g, ids)
    \/ \E caller \in GroupCallers, g \in GroupTargets, u \in GroupCallers :
           remove_member(caller, g, u)
    \/ \E caller \in GroupCallers, g \in GroupTargets : delete_group(caller, g)
    \/ \E caller \in GroupCallers, g \in GroupTargets :
           update_group(caller, g, "renamed")
    \/ \E c \in GroupCreateExpenseCalls :
           NextId <= MaxExpenses /\ create_expense(c[1], c[2])

GroupSpec == Init /\ [][GroupNext]_vars

(***************************************************************************)
(* C11: create_expense in a group                                          *)
(***************************************************************************)
\* no group row has the id, or the group is deleted
GroupGone(g) == g \notin DOMAIN groups \/ ~groups[g].is_active

\* the user has no active membership row of the group
NoActiveMembership(g, u) ==
    \A m \in group_members :
        (m.group_id = g /\ m.user_id = u) => ~m.is_active

\* create_expense answers 404 for a missing or deleted group and 403 for a
\* caller without an active membership of it
GroupChecksAnswered ==
    \A c \in GroupCreateExpenseCalls :
        /\ GroupGone(c[2].group_id) => create_expense_status(c[1], c[2]) = 404
        /\ (~GroupGone(c[2].group_id)
            /\ NoActiveMembership(c[2].group_id, c[1]))
               => create_expense_status(c[1], c[2]) = 403

\* and such a request writes nothing
GroupChecksWriteNothing ==
    \A c \in GroupCreateExpenseCalls :
        (/\ GroupGone(c[2].group_id) \/ NoActiveMembership(c[2].group_id, c[1])
         /\ create_expense(c[1], c[2]))
        => UNCHANGED vars

\* C11: create_expense with a group fails with NotFound when the group is
\* missing or inactive and with Forbidden when the caller is no active
\* member of it (a soft-removed member included), and then creates no
\* expense row, split row or notification
C11_GroupChecks ==
    []GroupChecksAnswered /\ [][GroupChecksWriteNothing]_vars

\* B's membership of G1 is soft-removed and G2 is deleted: B's expense in
\* G1 is answered 403, A's in G2 404, and C's in G1 403
C11_Witness ==
    /\ "G2" \in DOMAIN groups /\ ~groups["G2"].is_active
    /\ groups["G1"].is_active
    /\ \E m \in group_members :
           m.group_id = "G1" /\ m.user_id = "B" /\ ~m.is_active
    /\ \A d \in {c[2] : c \in GroupCreateExpenseCalls} :
           /\ d.group_id = "G1" => create_expense_status("B", d) = 403
           /\ d.group_id = "G1" => create_expense_status("C", d) = 403
           /\ d.group_id = "G2" => create_expense_status("A", d) = 404
           /\ d.group_id = "G0" => create_expense_status("A", d) = 404

(***************************************************************************)
(* C16, C17: the membership rows                                           *)
(***************************************************************************)
\* a (group, user) pair has at most one membership row
OneRowPerMember ==
    \A m, n \in group_members :
        (m.group_id = n.group_id /\ m.user_id = n.user_id) => m.id = n.id

\* no step deletes a membership row: every row stays, with its group, its
\* user and its role
RowsAreKept ==
    \A m \in group_members :
        \E n \in group_members' :
            /\ n.id = m.id /\ n.group_id = m.group_id
            /\ n.user_id = m.user_id /\ n.role = m.role

\* C16: in every reachable state there is at most one membership row per
\* (group, user), whatever create_group, add_member, add_members_bulk and
\* remove_member do and however two add requests interleave; remove_member
\* deletes no row, it clears the active flag
C16_OneMembershipRow ==
    []OneRowPerMember /\ [][RowsAreKept]_vars

\* C17: a group row never exists without the admin membership row of its
\* creator: neither while create_group runs nor after it has failed
\* between its writes
C17_CreatorAdminAtomic ==
    \A g \in DOMAIN groups :
        \E m \in group_members :
            /\ m.group_id = g /\ m.user_id = groups[g].created_by_id
            /\ m.role = "admin"

(***************************************************************************)
(* The update specification: A creates an expense split with B and C, and  *)
(* A's update requests replace its split rows commit by commit while other *)
(* requests run in between.                                                *)
(***************************************************************************)
SplitUpdateRequests == {d \in UpdateRequests : splits_changed(d)}

SplitUpdateNext ==
    \/ \E c \in SinkCreateCalls :
           NextId <= MaxExpenses /\ create_expense(c[1], c[2])
    \/ \E caller \in SinkCallers, e \in ExpenseIds, d \in SplitUpdateRequests :
           /\ Cardinality(inflight) < MaxInflight
           /\ update_fields(caller, e, d)
    \/ \E r \in inflight : update_delete_splits(r)
    \/ \E r \in inflight : update_set_type(r)
    \/ \E r \in inflight : update_create_split(r)
    \/ \E r \in inflight : update_notify(r)
    \/ \E r \in inflight : request_fails(r)

SplitUpdateSpec == Init /\ [][SplitUpdateNext]_vars

(***************************************************************************)
(* C19: what a read sees of an expense whose splits are being replaced     *)
(***************************************************************************)
\* the step is a commit of the update request r
UpdateCommit(r) ==
    \/ update_delete_splits(r)
    \/ update_set_type(r)
    \/ update_create_split(r)
    \/ update_notify(r)

\* C19: while update_expense replaces the split rows of an expense, every
\* read sees the complete old split set or the complete new one: a commit
\* of the request that changes the rows leaves the complete new set
C19_SplitsReplacedAtomically ==
    [][\A r \in inflight :
          (/\ r.op = "update_expense"
           /\ splits'[r.expense_id] # splits[r.expense_id]
           /\ UpdateCommit(r))
          => splits'[r.expense_id]
                 = SeqToBag(good_prefix(update_list(r)))]_vars

(***************************************************************************)
(* The balance engine in floating point.  The repository stores amounts    *)
(* in Float columns and calculate_user_balances accumulates them with the  *)
(* float + and - of Python, one row after the other, in the order the      *)
(* queries return the rows.  A float is named by its repr.  Float gives    *)
(* the float of an amount in minor units (c / 100); FloatAdd and FloatSub  *)
(* are the sum and the difference as CPython computes them, over every     *)
(* value that up to three steps of 0.4 or 0.01 reach from 0.0.             *)
(***************************************************************************)
Float == (1 :> "0.01") @@ (40 :> "0.4")

\* x + y of two floats, as CPython computes it
FloatAdd ==
       <<"-1.2000000000000002", "0.4">> :> "-0.8000000000000002"
    @@ <<"-1.2000000000000002", "0.01">> :> "-1.1900000000000002"
    @@ <<"-0.81", "0.4">> :> "-0.41000000000000003"
    @@ <<"-0.81", "0.01">> :> "-0.8"
    @@ <<"-0.8", "0.4">> :> "-0.4"
    @@ <<"-0.8", "0.01">> :> "-0.79"
    @@ <<"-0.79", "0.4">> :> "-0.39"
    @@ <<"-0.79", "0.01">> :> "-0.78"
    @@ <<"-0.42000000000000004", "0.4">> :> "-0.020000000000000018"
    @@ <<"-0.42000000000000004", "0.01">> :> "-0.41000000000000003"
    @@ <<"-0.41000000000000003", "0.4">> :> "-0.010000000000000009"
    @@ <<"-0.41000000000000003", "0.01">> :> "-0.4"
    @@ <<"-0.4", "0.4">> :> "0.0"
    @@ <<"-0.4", "0.01">> :> "-0.39"
    @@ <<"-0.39", "0.4">> :> "0.010000000000000009"
    @@ <<"-0.39", "0.01">> :> "-0.38"
    @@ <<"-0.38", "0.4">> :> "0.020000000000000018"
    @@ <<"-0.38", "0.01">> :> "-0.37"
    @@ <<"-0.03", "0.4">> :> "0.37"
    @@ <<"-0.03", "0.01">> :> "-0.019999999999999997"
    @@ <<"-0.02", "0.4">> :> "0.38"
    @@ <<"-0.02", "0.01">> :> "-0.01"
    @@ <<"-0.010000000000000009", "0.4">> :> "0.39"
    @@ <<"-0.010000000000000009", "0.01">> :> "-8.673617379884035e-18"
    @@ <<"-0.01", "0.4">> :> "0.39"
    @@ <<"-0.01", "0.01">> :> "0.0"
    @@ <<"0.0", "0.4">> :> "0.4"
    @@ <<"0.0", "0.01">> :> "0.01"
    @@ <<"0.01", "0.4">> :> "0.41000000000000003"
    @@ <<"0.01", "0.01">> :> "0.02"
    @@ <<"0.010000000000000009", "0.4">> :> "0.41000000000000003"
    @@ <<"0.010000000000000009", "0.01">> :> "0.02000000000000001"
    @@ <<"0.02", "0.4">> :> "0.42000000000000004"
    @@ <<"0.02", "0.01">> :> "0.03"
    @@ <<"0.03", "0.4">> :> "0.43000000000000005"
    @@ <<"0.03", "0.01">> :> "0.04"
    @@ <<"0.38", "0.4">> :> "0.78"
    @@ <<"0.38", "0.01">> :> "0.39"
    @@ <<"0.39", "0.4">> :> "0.79"
    @@ <<"0.39", "0.01">> :> "0.4"
    @@ <<"0.4", "0.4">> :> "0.8"
    @@ <<"0.4", "0.01">> :> "0.41000000000000003"
    @@ <<"0.41000000000000003", "0.4">> :> "0.81"
    @@ <<"0.41000000000000003", "0.01">> :> "0.42000000000000004"
    @@ <<"0.42000000000000004", "0.4">> :> "0.8200000000000001"
    @@ <<"0.42000000000000004", "0.01">> :> "0.43000000000000005"
    @@ <<"0.79", "0.4">> :> "1.19"
    @@ <<"0.79", "0.01">> :> "0.8"
    @@ <<"0.8", "0.4">> :> "1.2000000000000002"
    @@ <<"0.8", "0.01">> :> "0.81"
    @@ <<"0.81", "0.4">> :> "1.21"
    @@ <<"0.81", "0.01">> :> "0.8200000000000001"
    @@ <<"1.2000000000000002", "0.4">> :> "1.6"
    @@ <<"1.2000000000000002", "0.01">> :> "1.2100000000000002"

\* x - y of two floats, as CPython computes it
FloatSub ==
       <<"-1.2000000000000002", "0.4">> :> "-1.6"
    @@ <<"-1.2000000000000002", "0.01">> :> "-1.2100000000000002"
    @@ <<"-0.81", "0.4">> :> "-1.21"
    @@ <<"-0.81", "0.01">> :> "-0.8200000000000001"
    @@ <<"-0.8", "0.4">> :> "-1.2000000000000002"
    @@ <<"-0.8", "0.01">> :> "-0.81"
    @@ <<"-0.79", "0.4">> :> "-1.19"
    @@ <<"-0.79", "0.01">> :> "-0.8"
    @@ <<"-0.42000000000000004", "0.4">> :> "-0.8200000000000001"
    @@ <<"-0.42000000000000004", "0.01">> :> "-0.43000000000000005"
    @@ <<"-0.41000000000000003", "0.4">> :> "-0.81"
    @@ <<"-0.41000000000000003", "0.01">> :> "-0.42000000000000004"
    @@ <<"-0.4", "0.4">> :> "-0.8"
    @@ <<"-0.4", "0.01">> :> "-0.41000000000000003"
    @@ <<"-0.39", "0.4">> :> "-0.79"
    @@ <<"-0.39", "0.01">> :> "-0.4"
    @@ <<"-0.38", "0.4">> :> "-0.78"
    @@ <<"-0.38", "0.01">> :> "-0.39"
    @@ <<"-0.03", "0.4">> :> "-0.43000000000000005"
    @@ <<"-0.03", "0.01">> :> "-0.04"
    @@ <<"-0.02", "0.4">> :> "-0.42000000000000004"
    @@ <<"-0.02", "0.01">> :> "-0.03"
    @@ <<"-0.010000000000000009", "0.4">> :> "-0.41000000000000003"
    @@ <<"-0.010000000000000009", "0.01">> :> "-0.02000000000000001"
    @@ <<"-0.01", "0.4">> :> "-0.41000000000000003"
    @@ <<"-0.01", "0.01">> :> "-0.02"
    @@ <<"0.0", "0.4">> :> "-0.4"
    @@ <<"0.0", "0.01">> :> "-0.01"
    @@ <<"0.01", "0.4">> :> "-0.39"
    @@ <<"0.01", "0.01">> :> "0.0"
    @@ <<"0.010000000000000009", "0.4">> :> "-0.39"
    @@ <<"0.010000000000000009", "0.01">> :> "8.673617379884035e-18"
    @@ <<"0.02", "0.4">> :> "-0.38"
    @@ <<"0.02", "0.01">> :> "0.01"
    @@ <<"0.03", "0.4">> :> "-0.37"
    @@ <<"0.03", "0.01">> :> "0.019999999999999997"
    @@ <<"0.38", "0.4">> :> "-0.020000000000000018"
    @@ <<"0.38", "0.01">> :> "0.37"
    @@ <<"0.39", "0.4">> :> "-0.010000000000000009"
    @@ <<"0.39", "0.01">> :> "0.38"
    @@ <<"0.4", "0.4">> :> "0.0"
    @@ <<"0.4", "0.01">> :> "0.39"
    @@ <<"0.41000000000000003", "0.4">> :> "0.010000000000000009"
    @@ <<"0.41000000000000003", "0.01">> :> "0.4"
    @@ <<"0.42000000000000004", "0.4">> :> "0.020000000000000018"
    @@ <<"0.42000000000000004", "0.01">> :> "0.41000000000000003"
    @@ <<"0.79", "0.4">> :> "0.39"
    @@ <<"0.79", "0.01">> :> "0.78"
    @@ <<"0.8", "0.4">> :> "0.4"
    @@ <<"0.8", "0.01">> :> "0.79"
    @@ <<"0.81", "0.4">> :> "0.41000000000000003"
    @@ <<"0.81", "0.01">> :> "0.8"
    @@ <<"1.2000000000000002", "0.4">> :> "0.8000000000000002"
    @@ <<"1.2000000000000002", "0.01">> :> "1.1900000000000002"

\* the floats v above for which abs(v) > 0.01 is false
NotOverTolerance ==
    {"-0.01",
     "-8.673617379884035e-18",
     "0.0",
     "8.673617379884035e-18",
     "0.01"}

\* balances[k] = balances.get(k, 0) + amount (FloatAdd) or - amount
\* (FloatSub), op the table of the operation
balances_update(balances, k, op, amount) ==
    LET old == IF k \in DOMAIN balances THEN balances[k] ELSE "0.0"
    IN  [x \in (DOMAIN balances) \cup {k} |->
            IF x = k THEN op[<<old, Float[amount]>>] ELSE balances[x]]

\* the body of the loop over the splits of an expense paid by paid_by
split_step(balances, user_id, paid_by, r) ==
    IF paid_by = user_id /\ r.user_id # user_id
    THEN balances_update(balances, r.user_id, FloatAdd, r.amount)
    ELSE IF paid_by # user_id /\ r.user_id = user_id
    THEN balances_update(balances, paid_by, FloatSub, r.amount)
    ELSE balances

RECURSIVE splits_loop(_, _, _, _)
\* for split in expense.get("splits", []), rows the list of the splits
splits_loop(balances, user_id, paid_by, rows) ==
    IF rows = << >> THEN balances
    ELSE splits_loop(split_step(balances, user_id, paid_by, Head(rows)),
                     user_id, paid_by, Tail(rows))

RECURSIVE expenses_loop(_, _, _, _, _)
\* for expense in expenses, order the list of the expense ids and
\* row_order[e] the list of the splits of expense e
expenses_loop(balances, db, user_id, order, row_order) ==
    IF order = << >> THEN balances
    ELSE LET e == Head(order)
         IN  expenses_loop(
                 splits_loop(balances, user_id, db.expenses[e].paid_by_id,
                             row_order[e]),
                 db, user_id, Tail(order), row_order)

\* the body of the loop over the settlements
settlement_step(balances, user_id, s) ==
    IF s.from_user_id = user_id
    THEN balances_update(balances, s.to_user_id, FloatAdd, s.amount)
    ELSE IF s.to_user_id = user_id
    THEN balances_update(balances, s.from_user_id, FloatSub, s.amount)
    ELSE balances

RECURSIVE settlements_loop(_, _, _)
settlements_loop(balances, user_id, rows) ==
    IF rows = << >> THEN balances
    ELSE settlements_loop(settlement_step(balances, user_id, Head(rows)),
                          user_id, Tail(rows))

\* the dict that calculate_user_balances returns when the queries return
\* the expenses in the order `order`, the splits of expense e in the order
\* row_order[e] and the settlements in the order settlement_order
float_balances(db, user_id, order, row_order, settlement_order) ==
    LET balances ==
            settlements_loop(
                expenses_loop(<< >>, db, user_id, order, row_order),
                user_id, settlement_order)
    IN  [k \in {x \in DOMAIN balances : balances[x] \notin NotOverTolerance}
            |-> balances[k]]

\* the lists that hold the rows of the bag b, each as often as b holds it
ListsOfBag(b) ==
    {s \in [1..BagCardinality(b) -> DOMAIN b] : SeqToBag(s) = b}

\* the orders in which the queries can return the rows that
\* calculate_user_balances(user_id) reads outside any group
result_orders(db, user_id) ==
    LET E == get_user_expenses(db, user_id)
    IN  [order : ListsOfBag(SetToBag(E)),
         row_order :
             {f \in [E -> UNION {ListsOfBag(db.splits[e]) : e \in E}] :
                 \A e \in E : f[e] \in ListsOfBag(db.splits[e])},
         settlement_order : ListsOfBag(get_user_settlements(db, user_id))]

(***************************************************************************)
(* The float specification: A and B, outside any group.  A pays 0.40 and   *)
(* 0.01 for B, B pays 0.40 for A (exact splits that list the whole         *)
(* amount), in any order; each deletes what they paid; B settles 0.40      *)
(* with A.                                                                 *)
(***************************************************************************)
MaxFloatExpenses == 3
MaxFloatSettlements == 1

FloatCallers == {"A", "B"}

FloatCreateCalls ==
    {<<"A", [amount |-> 40, group_id |-> None, is_draft |-> FALSE,
             cfg |-> ExactList(<<SplitEntry("B", 40, NoneNum, NoneNum)>>)]>>,
     <<"A", [amount |-> 1, group_id |-> None, is_draft |-> FALSE,
             cfg |-> ExactList(<<SplitEntry("B", 1, NoneNum, NoneNum)>>)]>>,
     <<"B", [amount |-> 40, group_id |-> None, is_draft |-> FALSE,
             cfg |-> ExactList(<<SplitEntry("A", 40, NoneNum, NoneNum)>>)]>>}

FloatSettleCalls ==
    {<<"B", [from_user_id |-> None, to_user_id |-> "A", amount |-> 40,
             group_id |-> None]>>}

FloatNext ==
    \/ \E c \in FloatCreateCalls :
           NextId <= MaxFloatExpenses /\ create_expense(c[1], c[2])
    \/ \E caller \in FloatCallers, e \in 1..MaxFloatExpenses :
           delete_expense(caller, e)
    \/ \E c \in FloatSettleCalls :
           /\ BagCardinality(settlements) < MaxFloatSettlements
           /\ record_settlement(c[1], c[2])

FloatSpec == Init /\ [][FloatNext]_vars

(***************************************************************************)
(* C18: order independence of the balance map                              *)
(***************************************************************************)
\* C18: for the expenses, split rows and settlements of a state, the
\* balance map that calculate_user_balances returns is the same for every
\* order in which the repository returns the expenses, the splits within
\* each expense and the settlements
C18_OrderIndependent ==
    \A user_id \in FloatCallers :
        \A o1, o2 \in result_orders(DB, user_id) :
            float_balances(DB, user_id, o1.order, o1.row_order,
                           o1.settlement_order)
            = float_balances(DB, user_id, o2.order, o2.row_order,
                             o2.settlement_order)

(***************************************************************************)
(* C21: a rejected update writes nothing                                   *)
(***************************************************************************)
\* the statuses with which update_expense rejects a request: NotFound,
\* Forbidden, and 400 for an equal split with no selected user
UpdateRejection == {404, 403, 400}

\* C21: an update_expense request that is answered with NotFound,
\* Forbidden or the 400 of an equal split with zero selected users leaves
\* the expense row (scalar fields and split_type) and the split rows of
\* every expense as they were
C21_RejectedUpdateChangesNothing ==
    [][\A caller \in Callers, e \in ExpenseIds, d \in UpdateRequests :
           (/\ update_expense_status(caller, e, d) \in UpdateRejection
            /\ update_expense(caller, e, d))
           => UNCHANGED <<expenses, splits>>]_vars

(***************************************************************************)
(* POST /api/expenses/ and PUT /api/expenses/drafts/{id}/submit, commit by *)
(* commit.  SQLiteService.create_expense commits the expense row and then, *)
(* when there are split rows, commits them together; submit_draft_expense  *)
(* reads the draft, commits one split row after the other and then the     *)
(* cleared draft flag.  The requests of other processes run between these  *)
(* commits.                                                                *)
(***************************************************************************)
\* the checks, and db.add(expense); db.commit()
create_expense_insert(caller, d) ==
    /\ create_expense_status(caller, d) = 201
    /\ expenses' = expenses @@ (NextId :> create_row(caller, d))
    /\ splits' = splits @@ (NextId :> EmptyBag)
    /\ inflight' =
           IF draft_splits(caller, d) = EmptyBag THEN inflight
           ELSE inflight \cup
                    {[op |-> "create_expense", id |-> NextRequestId,
                      caller |-> caller, expense_id |-> NextId, d |-> d]}
    /\ UNCHANGED <<settlements, notifications, groups, group_members,
                   sink_rejects>>

\* db.add(split) for every split row and the second db.commit(); then the
\* notifications of the handler
create_expense_splits(r) ==
    /\ r \in inflight /\ r.op = "create_expense"
    /\ splits' = [splits EXCEPT
           ![r.expense_id] = @ (+) draft_splits(r.caller, r.d)]
    /\ dispatch(expense_notifications(draft_splits(r.caller, r.d), r.caller,
                                      "expense_added", r.expense_id))
    /\ inflight' = inflight \ {r}
    /\ UNCHANGED <<expenses, settlements, groups, group_members,
                   sink_rejects>>

\* the read of the draft, its checks and the list `splits` prepared from it
submit_draft_begin(caller, e) ==
    /\ submit_draft_checks(caller, e) = 200
    /\ inflight' = inflight \cup
           {[op |-> "submit_draft", id |-> NextRequestId, caller |-> caller,
             expense_id |-> e, notes |-> expenses[e].notes,
             list |-> submit_list(caller, e),
             rows |-> submit_targets(caller, submit_list(caller, e))]}
    /\ UNCHANGED <<expenses, splits, settlements, notifications, groups,
                   group_members, sink_rejects>>

\* db_service.create_expense_split and its commit; an amount of None
\* raises and ends the request with 500
submit_create_split(r) ==
    /\ r \in inflight /\ r.op = "submit_draft"
    /\ r.rows # << >>
    /\ IF Head(r.rows).amount = NoneNum
       THEN /\ inflight' = inflight \ {r}
            /\ UNCHANGED splits
       ELSE /\ splits' = [splits EXCEPT
                   ![r.expense_id] = @ (+) SetToBag({Head(r.rows)})]
            /\ inflight' = (inflight \ {r})
                   \cup {[r EXCEPT !.rows = Tail(r.rows)]}
    /\ UNCHANGED <<expenses, settlements, notifications, groups,
                   group_members, sink_rejects>>

\* db_service.update_expense(is_draft=False, notes=...) and its commit;
\* then the notifications for the list prepared at the start
submit_draft_finish(r) ==
    /\ r \in inflight /\ r.op = "submit_draft"
    /\ r.rows = << >>
    /\ expenses' = [expenses EXCEPT
           ![r.expense_id].is_draft = FALSE,
           ![r.expense_id].notes =
               IF r.notes.text THEN submit_notes(r.notes) ELSE @]
    /\ dispatch(expense_notifications(SeqToBag(r.list), r.caller,
                                      "expense_added", r.expense_id))
    /\ inflight' = inflight \ {r}
    /\ UNCHANGED <<splits, settlements, groups, group_members, sink_rejects>>

(***************************************************************************)
(* The commit specification: A or B creates one expense, in G1 or in no    *)
(* group, at once or as a draft, split equally with B, or with B and C;    *)
(* its payer submits the draft, possibly twice at the same time; a         *)
(* create_expense request can stop between its two commits.                *)
(***************************************************************************)
CommitCreateCalls ==
    SinkCallers
        \X [amount : CreateAmounts, group_id : {None, "G1"},
            cfg : {EqualWith({"B"}), EqualWith({"B", "C"})},
            is_draft : BOOLEAN]

CommitNext ==
    \/ \E c \in CommitCreateCalls :
           /\ NextId <= MaxExpenses
           /\ Cardinality(inflight) < MaxInflight
           /\ create_expense_insert(c[1], c[2])
    \/ \E r \in inflight : create_expense_splits(r)
    \/ \E caller \in SinkCallers, e \in DOMAIN expenses :
           /\ Cardinality(inflight) < MaxInflight
           /\ BagCardinality(splits[e])
                  + SumSet(inflight, [r \in inflight |->
                        IF r.op = "submit_draft" THEN Len(r.rows) ELSE 0])
                  + Len(submit_targets(caller, submit_list(caller, e)))
              <= MaxSplitRows
           /\ submit_draft_begin(caller, e)
    \/ \E r \in inflight : submit_create_split(r)
    \/ \E r \in inflight : submit_draft_finish(r)
    \/ \E r \in inflight : r.op = "create_expense" /\ request_fails(r)

CommitSpec == Init /\ [][CommitNext]_vars

(***************************************************************************)
(* C22: an expense row that is visible without its split rows              *)
(***************************************************************************)
\* C22: while create_expense has committed the expense row and not yet its
\* split rows (the state a crash between the two commits leaves for good),
\* every balance read (per-counterpart balances, get_group_balances with
\* its totals, the group-list balance) is what it is over the ledger
\* without that expense
C22_PartialExpenseSkipped ==
    \A r \in inflight :
        r.op = "create_expense" => SameBalances(DB, DBWithout(r.expense_id))

(***************************************************************************)
(* C23: the tolerance of the balance map                                   *)
(***************************************************************************)
\* C23: the balance map of calculate_user_balances has an entry for a
\* counterpart exactly when the absolute value of the accumulated net
\* amount is at least 0.01 (one minor unit)
C23_ToleranceInclusive ==
    \A user_id \in Users, g \in Scopes, k \in Users :
        k \in DOMAIN calculate_user_balances(DB, user_id, g)
        <=> Abs(accumulate(DB, scope_expenses(DB, user_id, g),
                           scope_settlements(DB, user_id, g), user_id, k))
                >= 1

(***************************************************************************)
(* C24: the settlements that record_settlement stores                      *)
(***************************************************************************)
\* the record_settlement requests of the claim: those of the model and
\* those that name "Z", the id of no user, as the payer
AnySettleCalls ==
    Callers \X [from_user_id : {None, "A", "B", "Z"},
                to_user_id : {"A", "B", "Z"},
                amount : SettleAmounts, group_id : {None, "G1"}]

\* from_user and to_user of a row are two different existing users
SettlementParties(s) ==
    /\ s.from_user_id # s.to_user_id
    /\ get_user_by_id(s.from_user_id) /\ get_user_by_id(s.to_user_id)

\* every stored settlement is between two different existing users, and
\* a request that names an unknown user is answered 404, one between a
\* user and themselves 400, one of an uninvolved caller 403
SettlementsChecked ==
    /\ \A s \in DOMAIN settlements : SettlementParties(s)
    /\ \A c \in AnySettleCalls :
           LET from == settlement_from(c[1], c[2])
               to   == c[2].to_user_id
           IN  /\ (~get_user_by_id(from) \/ ~get_user_by_id(to))
                      => record_settlement_status(c[1], c[2]) = 404
               /\ (get_user_by_id(from) /\ from = to)
                      => record_settlement_status(c[1], c[2]) = 400
               /\ (/\ get_user_by_id(from) /\ get_user_by_id(to)
                   /\ from # to /\ c[1] \notin {from, to})
                      => record_settlement_status(c[1], c[2]) = 403

\* a request stores a settlement or a notification only when its caller
\* is one of two different existing users, from_user and to_user
SettlementByParty ==
    (settlements' # settlements \/ notifications' # notifications) =>
        \A c \in AnySettleCalls :
            record_settlement(c[1], c[2]) =>
                /\ c[1] \in {settlement_from(c[1], c[2]), c[2].to_user_id}
                /\ settlement_from(c[1], c[2]) # c[2].to_user_id
                /\ get_user_by_id(settlement_from(c[1], c[2]))
                /\ get_user_by_id(c[2].to_user_id)

\* C24: every settlement that record_settlement stores has from_user
\* different from to_user, both existing users, and a caller who is one of
\* the two; a request that violates one of these is rejected (400 for
\* settling with yourself, 403 for an uninvolved caller, 404 for an
\* unknown user), stores no settlement and sends no notification
C24_SettlementChecks ==
    []SettlementsChecked /\ [][SettlementByParty]_vars

\* a settlement between A and B is stored, and C's request for it, a
\* request of A with A, and a request to Z are rejected
C24_Witness ==
    /\ \E s \in DOMAIN settlements :
           s.from_user_id = "B" /\ s.to_user_id = "A"
    /\ \E d \in {c[2] : c \in AnySettleCalls} :
           /\ d.from_user_id = "B" /\ d.to_user_id = "A"
           /\ record_settlement_status("C", d) = 403
    /\ \E d \in {c[2] : c \in AnySettleCalls} :
           /\ d.from_user_id = None /\ d.to_user_id = "A"
           /\ record_settlement_status("A", d) = 400
    /\ \E d \in {c[2] : c \in AnySettleCalls} :
           /\ d.to_user_id = "Z"
           /\ record_settlement_status("A", d) = 404

(***************************************************************************)
(* C25: role gating of the group handlers                                  *)
(***************************************************************************)
\* user u holds an active membership row of group g with role admin
ActiveAdmin(g, u) ==
    \E m \in group_members :
        /\ m.group_id = g /\ m.user_id = u
        /\ m.role = "admin" /\ m.is_active

\* in an active group, add_member, add_members_bulk, update_group and
\* delete_group answer 403 to a caller who is no active admin, and
\* remove_member answers 403 to a caller who is no active member, or who
\* is no admin and names another user; an active member who is no admin
\* can remove themselves
RoleGateAnswered ==
    \A caller \in GroupCallers, g \in DOMAIN groups :
        (groups[g].is_active /\ ~ActiveAdmin(g, caller)) =>
            /\ admin_checks(caller, g) = 403
            /\ \A u \in {"B", "C", "Z", None} :
                   add_member_checks(caller, g, u) = 403
            /\ \A u \in GroupCallers \ {caller} :
                   remove_member_status(caller, g, u) = 403
            /\ remove_member_status(caller, g, caller) =
                   IF NoActiveMembership(g, caller) THEN 403 ELSE 200

\* a step of one of these handlers changes the tables only for a caller
\* who is an active admin of the group, or who removes their own active
\* membership
RoleGateWrites ==
    (group_members' # group_members \/ groups' # groups
        \/ inflight' # inflight) =>
        \A caller \in GroupCallers, g \in GroupTargets :
            /\ \A u \in {"B", "C", "Z", None} :
                   add_member_query(caller, g, u) => ActiveAdmin(g, caller)
            /\ \A ids \in {<<"C", "C">>, <<"B", "Z">>} :
                   add_members_bulk(caller, g, ids) => ActiveAdmin(g, caller)
            /\ update_group(caller, g, "renamed") => ActiveAdmin(g, caller)
            /\ delete_group(caller, g) => ActiveAdmin(g, caller)
            /\ \A u \in GroupCallers :
                   remove_member(caller, g, u) =>
                       \/ ActiveAdmin(g, caller)
                       \/ u = caller /\ ~NoActiveMembership(g, caller)

CounterpartSum(g, user_id) ==
    SumSet(Users, [k \in Users |->
        accumulate(DB, get_group_expenses(DB, g),
                   get_group_settlements(DB, g), user_id, k)])

\* C26: for every group g and user u, the net group balance of the group
\* list (_calculate_group_balance: paid minus share, plus settlements
\* paid, minus settlements received) equals the sum over all counterparts
\* of u's per-counterpart balances in the scope of g
C26_NetEqualsCounterpartSum ==
    \A g \in Groups, user_id \in Users :
        calculate_group_balance(DB, g, user_id)
            = {CounterpartSum(g, user_id)}

(***************************************************************************)
(* C27: the scopes partition the ledger                                    *)
(***************************************************************************)
\* the group ids that the expenses and the settlements carry
CarriedGroupIds ==
    ({expenses[e].group_id : e \in DOMAIN expenses}
        \cup {s.group_id : s \in DOMAIN settlements}) \ {None}

\* user_id's balance toward k, before the tolerance filter, in a scope
ScopeBalance(user_id, g, k) ==
    accumulate(DB, scope_expenses(DB, user_id, g),
               scope_settlements(DB, user_id, g), user_id, k)

\* the same over the active expenses and settlements that carry no group
UngroupedBalance(user_id, k) ==
    accumulate(DB,
               {e \in DOMAIN expenses :
                   expenses[e].is_active /\ expenses[e].group_id = None},
               Restrict(settlements,
                        {s \in DOMAIN settlements :
                            s.is_active /\ s.group_id = None}),
               user_id, k)

ScalarEdit(d) == ~splits_changed(d)

RowCount(e, u) ==
    SumOver(splits[e], [r \in DOMAIN splits[e] |->
                           IF r.user_id = u THEN 1 ELSE 0])

\* the number of expense_added notifications of user u that name e
AddedCount(e, u) ==
    SumOver(notifications, [n \in DOMAIN notifications |->
        IF n = Notification(u, "expense_added", e) THEN 1 ELSE 0])

C30_ActiveGroupHasAdmin ==
    \A g \in DOMAIN groups :
        (/\ groups[g].is_active
         /\ \E m \in group_members : m.group_id = g /\ m.role = "admin")
        => \E u \in Users : ActiveAdmin(g, u)

====
